---- MODULE Spec2Model ----
(***************************************************************************)
(* Multi-method host discovery (package network): the address range        *)
(* expander, the enhanced (ARP + ICMP + TCP) discovery orchestrator, the   *)
(* parallel ARP scanner and the smart (local / remote) dispatcher.         *)
(*                                                                         *)
(* An IPv4 address string "a.b.c.d" is the tuple <<a, b, c, d>> of its     *)
(* octets; a prefix string is a record [valid, ip, bits], valid = FALSE    *)
(* standing for a string net.ParseCIDR rejects.                            *)
(***************************************************************************)
EXTENDS Integers, Sequences, FiniteSets, TLC

(***************************************************************************)
(* Bounds of the model.                                                    *)
(***************************************************************************)
\* at most MaxAnswers (address, method) pairs answer during one DiscoverHosts
MaxAnswers == 3
\* the parallel ARP scanner is built with 1..MaxWorkers workers
MaxWorkers == 2
\* at most MaxSmartAnswers (address, method) pairs answer during DiscoverTargets
MaxSmartAnswers == 1

(***************************************************************************)
(* The toolchain named by the repository (README: FROM golang:1.21, setup: *)
(* Go 1.19 or later) declares the variable of a for-range loop once per    *)
(* loop, not once per iteration.                                           *)
(***************************************************************************)
PerIterationLoopVar == FALSE

(***************************************************************************)
(* Address arithmetic                                                      *)
(***************************************************************************)
\* an ipToInt that shifts octet i by 8*i, the first octet lowest
ipToIntFirstOctetLowest(ip) ==
    IF Len(ip) # 4 THEN 0
    ELSE ip[1] + ip[2] * 256 + ip[3] * 65536 + ip[4] * 16777216

\* ipToInt: the 32-bit value  o1<<24 | o2<<16 | o3<<8 | o4  (an octet that
\* Sscanf read is below 256, so no bit is lost; 32-bit signed integers hold
\* the value for every address below 128.0.0.0)
ipToInt(ip) ==
    IF Len(ip) # 4 THEN 0
    ELSE ip[1] * 16777216 + ip[2] * 65536 + ip[3] * 256 + ip[4]

\* incrementIP applied k times: add k to the last byte, carrying upwards,
\* each byte wrapping at 256 (255.255.255.255 is followed by 0.0.0.0)
incrementIP(ip, k) ==
    LET t4 == ip[4] + k
        t3 == ip[3] + (t4 \div 256)
        t2 == ip[2] + (t3 \div 256)
        t1 == ip[1] + (t2 \div 256)
    IN  << t1 % 256, t2 % 256, t3 % 256, t4 % 256 >>

\* one byte of an address ANDed with the mask byte that has n leading ones
MaskOctet(o, n) ==
    IF n >= 8 THEN o ELSE IF n <= 0 THEN 0 ELSE o - (o % (2 ^ (8 - n)))

\* ip.Mask(mask): the address ANDed bytewise with the mask of length bits
MaskIP(ip, bits) ==
    << MaskOctet(ip[1], bits), MaskOctet(ip[2], bits - 8),
       MaskOctet(ip[3], bits - 16), MaskOctet(ip[4], bits - 24) >>

\* ipnet.Contains(ip) for the network [ip, bits]
Contains(ipnet, ip) == MaskIP(ip, ipnet.bits) = MaskIP(ipnet.ip, ipnet.bits)

\* CIDRToIPRange for a prefix net.ParseCIDR accepts, 2 <= bits <= 32.  The
\* loop starts at the masked address and collects addresses, one incrementIP
\* apart, while the network contains them: those are the 2^(32-bits)
\* addresses of the block, in order.  More than two: drop first and last.
\* CIDRRangeLen is the length of the returned list, CIDRRangeAt its k-th entry.
CIDRRangeLen(cidr) ==
    LET n == 2 ^ (32 - cidr.bits) IN IF n > 2 THEN n - 2 ELSE n

CIDRRangeAt(cidr, k) ==
    LET first == MaskIP(cidr.ip, cidr.bits)
        n     == 2 ^ (32 - cidr.bits)
    IN  IF n > 2 THEN incrementIP(first, k) ELSE incrementIP(first, k - 1)

CIDRToIPRange(cidr) == [k \in 1..CIDRRangeLen(cidr) |-> CIDRRangeAt(cidr, k)]

\* whether ip is an entry of CIDRToIPRange(cidr)
InCIDRRange(cidr, ip) == \E k \in 1..CIDRRangeLen(cidr) : CIDRRangeAt(cidr, k) = ip

\* the prefix string no parser accepts
BadCIDR == [valid |-> FALSE, ip |-> <<0, 0, 0, 0>>, bits |-> 0]

\* ipsToNetwork: the /24 around the first address, "" for an empty list
ipsToNetwork(ips) ==
    IF Len(ips) = 0 THEN BadCIDR
    ELSE IF Len(ips[1]) = 4
         THEN [valid |-> TRUE, ip |-> <<ips[1][1], ips[1][2], ips[1][3], 0>>, bits |-> 24]
         ELSE BadCIDR

Range(s) == {s[i] : i \in DOMAIN s}


(***************************************************************************)
(* The network around the scanner                                          *)
(***************************************************************************)
\* the addresses at which a machine exists; no other address ever answers
Hosts == { <<10, 0, 0, 1>>, <<10, 0, 0, 2>> }

\* the prefix strings DiscoverHosts is called with
CidrInputs ==
    { [valid |-> TRUE, ip |-> <<10, 0, 0, 0>>, bits |-> 30],
      [valid |-> TRUE, ip |-> <<10, 0, 0, 2>>, bits |-> 32],
      BadCIDR }

\* mac.String() of the hardware address that answers for ip
HardwareAddr(ip) == "02:00:00:00:00:" \o ToString(ip[4])

\* lookupVendor: the OUI lookup is a stub
lookupVendor(mac) == ""

\* the round-trip times PingHost can measure (time.Since(start), positive)
RoundTripTimes == {7}

\* the names the reverse lookup can return ("" when it fails)
LookupNames == {"", "host.lan"}

(***************************************************************************)
(* State                                                                   *)
(***************************************************************************)
VARIABLES
    \* ---- inputs and environment of one DiscoverHosts call
    cidr,            \* the prefix argument
    enablePortScan,  \* the enablePortScan argument
    arpReply,        \* addresses that answer an ARP request
    echoReply,       \* addresses that answer an ICMP echo request
    tcpAccept,       \* addresses that accept a connection on a common port
    \* ---- DiscoverHosts
    pc,              \* position of the calling goroutine
    ips,             \* CIDRToIPRange(cidr)
    resultChan,      \* buffered channel: the findings in flight
    chanClosed,      \* close(resultChan) has run
    closerPc,        \* the goroutine that waits for the producers and closes
    wg,              \* sync.WaitGroup counter
    arpPc,           \* ARP producer goroutine
    arpNetwork,      \* the prefix given to ScanNetworkParallel
    arpPending,      \* ARP results not yet sent on resultChan
    arpFailure,      \* "none"; "returned": ScanNetworkParallel gave an error;
                     \* "dropped": a worker failed and the error was nil
    icmpPc,          \* ICMP producer goroutine
    icmpPending,     \* successful pings not yet sent on resultChan
    tcpPc,           \* TCP producer goroutine
    tcpIdx,          \* index in ips the TCP producer has reached
    cells,           \* heap cells holding DiscoveryResult values
    resultsMap,      \* resultsMap: IP -> cell its pointer refers to
    iter,            \* iterations of the merge loop so far
    activeResults,   \* the slice being built and returned
    err,             \* the returned error: "nil", "parse", or "none" before return
    \* ---- history
    sent,            \* every finding sent on resultChan
    sendOnClosed,    \* a producer sent on the closed channel (a panic)
    scannedPorts,    \* addresses handed to the port scanner
    \* ---- ParallelARPScanner.ScanNetworkParallel
    aCidr,           \* the cidr argument
    aWorkers,        \* s.workers
    aPc,             \* position of the calling goroutine
    aIps,            \* CIDRToIPRange(cidr)
    aIdx,            \* addresses the dispatch loop has handed out
    ipChan,          \* buffered channel of addresses, cap len(ips)
    ipChanClosed,    \* close(ipChan) has run
    arpResultChan,   \* buffered channel of ARP results, cap len(ips)
    arpResultClosed, \* close(resultChan) has run
    errChan,         \* buffered channel of worker errors, cap 1
    doneClosed,      \* close(doneChan) has run
    aResults,        \* the results slice the collector appends to
    aWg,             \* sync.WaitGroup counter of the workers
    wPc,             \* position of each worker goroutine
    wCur,            \* the address each worker holds
    wSock,           \* whether each worker holds an open ARP socket
    wUse,            \* the socket each worker is resolving through, if any
    collectorPc,     \* the result collector goroutine
    aRet,            \* what the call returned
    failedWorkers,   \* workers whose NewARPScanner failed, in order of failure
    \* ---- SmartDiscovery.DiscoverTargets
    localNetwork,    \* sd.localNetwork (valid = FALSE: nil)
    arpScannerSet,   \* sd.arpScanner # nil
    localCIDR,       \* the localCIDR argument
    fileTargets,     \* the fileTargets argument
    sPc,             \* position of DiscoverTargets
    sIdx,            \* 0: the local network step; k: file target k
    allResults,      \* the slice DiscoverTargets returns
    strategies,      \* per step, the strategy discoverNetwork ran with
    \* ---- ICMPScanner.PingHosts
    pWorkers,        \* s.workers
    pIps,            \* the ips argument
    pPc,             \* position of the calling goroutine
    pIpChan,         \* buffered channel of addresses, filled and closed
    pResultChan,     \* buffered channel of PingResults, cap len(ips)
    pResultClosed,   \* close(resultChan) has run
    pWg,             \* sync.WaitGroup counter of the workers
    pwPc,            \* position of each worker goroutine
    pwCur,           \* the address each worker holds
    pCloserPc,       \* the goroutine that waits for the workers and closes
    pResults,        \* the results slice being built and returned
    pProbes,         \* what each PingHost call did: socket opened, pingTCP run
    \* ---- SmartDiscovery.discoverRemote
    rPc,             \* position of discoverRemote
    rPings,          \* the successful PingResults PingHosts returned
    rTcps,           \* the addresses performTCPSweep returned
    \* ---- CIDRToIPRange, one iteration at a time
    cNet,            \* ipnet, the parsed prefix
    cIP,             \* ip, the loop variable
    cIps,            \* ips, the addresses appended so far
    cRet,            \* the slice returned
    cPc,             \* idle, loop, done, error
    \* ---- the TCP connection prober, one dial at a time
    tFunc,           \* the function running the port loop
    tIps,            \* ips, the addresses to probe
    tOpen,           \* the ports each host accepts connections on
    tI,              \* index in ips of the address being probed
    tP,              \* index in tcpPorts of the next port
    tDialed,         \* per address, the ports dialed for it, in order
    tErr,            \* err of the last net.DialTimeout
    tOut,            \* what was reported: results sent, or activeIPs
    tPc,             \* idle, next, dial, done
    \* ---- mergeResults on one record
    mNew,            \* *new, the incoming finding
    mTrail,          \* the values of *existing: before the first merge, after each merge
    \* ---- removeDuplicateAssets on the assets of one address
    uAssets,         \* assets, the slice being deduplicated
    uTrail,          \* the values of *assetMap[ip] after each iteration
    uRet,            \* uniqueAssets, the slice returned
    uPc,             \* idle, loop, done
    \* ---- one port probe: scanTCPPort or scanUDPPort
    kCall,           \* the probe: scanner, protocol, port, and what dial, write and read meet
    kOut,            \* the result returned, none for a nil pointer
    kErr,            \* the error returned
    kPc,             \* idle, call, done
    \* ---- performPortScanning, one probe at a time
    hEnv,            \* what each host does with port probes
    hI,              \* index in *results of the record being enriched
    hPc,             \* idle, next, scan, done
    hTcp,            \* candidate TCP ports the TCP goroutine of ScanHost has probed
    hUdp,            \* candidate UDP ports the UDP goroutine of ScanHost has probed
    \* ---- scanFileTargetsExcluding and ReadCIDRsFromFile
    fLines,          \* the lines of the target list file
    fExclude,        \* excludeCIDR, "" when there is no local network
    fIdx,            \* lines ReadCIDRsFromFile has read
    fCidrs,          \* cidrs, the lines accepted so far, then the list being scanned
    fErr,            \* the error of ReadCIDRsFromFile
    fScanned,        \* the prefixes DiscoverAssets was called with
    fPc,             \* idle, read, scan, done
    \* ---- ParallelARPScanner.scanIPWithRetry
    yOutcomes,       \* how each attempt would end, were it made
    yI,              \* the loop variable i
    yResolves,       \* the Resolve calls made so far
    yLastErr,        \* lastErr
    yRet,            \* the returned (result, err), once returned
    yPc,             \* "loop", "returned" (line 76 is next), "done"
    \* ---- ICMPScanner.pingICMP of concurrent workers
    eTargets,        \* the address each worker pings
    eSock,           \* each worker's raw socket: "none", "open", "closed"
    eQueue,          \* the packets waiting in each socket, by source address
    eNet,            \* the echo replies in flight to the scanning host
    ePc,             \* each worker: "listen", "send", "read", "done"
    eAlive,          \* what pingICMP returned to each worker
    \* ---- PublicAssetScanner.ScanPublicAssets on one live host
    bEnv,            \* what the live host does with probes
    bTcpPorts,       \* the tcpPorts argument
    bUdpPorts,       \* the udpPorts argument
    bPc,             \* "tcp", "udp" (the phase that runs), "done"
    bJobs,           \* the ports of the phase not probed yet
    bResults,        \* results[target] of the phase that runs
    bOpenPorts,      \* asset.OpenPorts of the live host
    \* ---- performScan of the daemon
    gCfg,            \* cfg.Network.ScanLocalNetwork and cfg.Network.ScanFileList
    gLocal,          \* the assets DiscoverAssets finds on the local network
    gFile,           \* the assets DiscoverAssets finds on the file targets, in order
    gAll,            \* allAssets
    gMap,            \* assetMap of removeDuplicateAssets
    gNext,           \* the index of the asset the range of removeDuplicateAssets is at
    gUnique,         \* uniqueAssets
    gSaved,          \* the AssetResult in the output file, if one was written
    gPc,             \* where performScan is
    \* ---- the daemon loop of main
    nPc,             \* where main is: in performScan, at the select, or returned
    nTick,           \* the ticks waiting in ticker.C (capacity 1)
    nStop,           \* the signal waiting in the channel stop (capacity 1)
    nScans,          \* the calls of performScan so far
    nRunning,        \* the calls of performScan that have not returned
    nClosed          \* discovery.Close() has run

dvars == << closerPc, cidr, enablePortScan, arpReply, echoReply, tcpAccept,
            pc, ips, resultChan, chanClosed, wg, arpPc, arpNetwork, arpPending, arpFailure,
            icmpPc, icmpPending, tcpPc, tcpIdx, cells, resultsMap, iter,
            activeResults, err, sent, sendOnClosed, scannedPorts >>

avars == << aCidr, aWorkers, aPc, aIps, aIdx, ipChan, ipChanClosed, arpResultChan,
            arpResultClosed, errChan, doneClosed, aResults, aWg, wPc, wCur, wSock,
            wUse, collectorPc, aRet, failedWorkers >>

svars == << localNetwork, arpScannerSet, localCIDR, fileTargets, sPc, sIdx,
            allResults, strategies >>

pvars == << pWorkers, pIps, pPc, pIpChan, pResultChan, pResultClosed, pWg, pwPc, pwCur, pCloserPc, pResults, pProbes >>

rvars == << rPc, rPings, rTcps >>

cvars == << cNet, cIP, cIps, cRet, cPc >>

tvars == << tFunc, tIps, tOpen, tI, tP, tDialed, tErr, tOut, tPc >>

mvars == << mNew, mTrail >>

uvars == << uAssets, uTrail, uRet, uPc >>

kvars == << kCall, kOut, kErr, kPc >>

hvars == << hEnv, hI, hPc, hTcp, hUdp >>

fvars == << fLines, fExclude, fIdx, fCidrs, fErr, fScanned, fPc >>

yvars == << yOutcomes, yI, yResolves, yLastErr, yRet, yPc >>

evars == << eTargets, eSock, eQueue, eNet, ePc, eAlive >>

bvars == << bEnv, bTcpPorts, bUdpPorts, bPc, bJobs, bResults, bOpenPorts >>

gvars == << gCfg, gLocal, gFile, gAll, gMap, gNext, gUnique, gSaved, gPc >>

nvars == << nPc, nTick, nStop, nScans, nRunning, nClosed >>

vars == << dvars, avars, svars, pvars, rvars, cvars, tvars, mvars, uvars, kvars, hvars, fvars, yvars, evars, bvars, gvars, nvars >>

(***************************************************************************)
(* Probes                                                                  *)
(***************************************************************************)
\* pingICMP: true when the raw socket opens (raw: icmp.ListenPacket succeeds,
\* which takes privilege) and a reply is read in time
pingICMP(ip, raw) == raw /\ ip \in echoReply

\* pingTCP: true when a connection to one of the common ports succeeds
pingTCP(ip) == ip \in tcpAccept

\* PingHost(ip).Success
PingHost(ip, raw) == pingICMP(ip, raw) \/ pingTCP(ip)

\* DiscoveryResult with the fields a producer sets; the rest are zero values
NewResult(ip, arp, icmp, tcp, mac, vendor, rtt) ==
    [ IP |-> ip, FoundByARP |-> arp, FoundByICMP |-> icmp, FoundByTCP |-> tcp,
      MAC |-> mac, Vendor |-> vendor, Hostname |-> "", OpenPorts |-> << >>,
      ResponseTime |-> rtt ]

\* the result performARPDiscovery builds from one ARPResult
ARPFinding(ip) ==
    NewResult(ip, TRUE, FALSE, FALSE, HardwareAddr(ip), lookupVendor(HardwareAddr(ip)), 0)

\* the result performICMPDiscovery builds from one successful PingResult
ICMPFinding(ip, rtt) == NewResult(ip, FALSE, TRUE, FALSE, "", "", rtt)

\* the result performTCPDiscovery builds for an address that accepted
TCPFinding(ip) == NewResult(ip, FALSE, FALSE, TRUE, "", "", 0)

\* what ScanNetworkParallel(network) can return (SpecARP has the workers):
\* every replier when each worker opens its socket; when a worker does not,
\* either the error and no list, or a nil error and the results of the others
ScanNetworkParallelOutcomes(network) ==
    IF ~network.valid
    THEN { [results |-> {}, failure |-> "returned"] }
    ELSE LET found == {ip \in arpReply : InCIDRRange(network, ip)}
         IN  { [results |-> found, failure |-> "none"],
               [results |-> {}, failure |-> "returned"] }
             \cup { [results |-> S, failure |-> "dropped"] : S \in SUBSET found }

\* a merge that copies MAC, Vendor and ResponseTime whatever they hold
mergeResultsCopiesEmpty(existing, new) ==
    LET e1 == IF new.FoundByARP
              THEN [existing EXCEPT !.FoundByARP = TRUE,
                                    !.MAC = new.MAC, !.Vendor = new.Vendor]
              ELSE existing
        e2 == IF new.FoundByICMP
              THEN [e1 EXCEPT !.FoundByICMP = TRUE, !.ResponseTime = new.ResponseTime]
              ELSE e1
    IN  IF new.FoundByTCP THEN [e2 EXCEPT !.FoundByTCP = TRUE] ELSE e2

\* mergeResults(existing, new): the value left in *existing
mergeResults(existing, new) ==
    LET e1 == IF new.FoundByARP
              THEN [existing EXCEPT !.FoundByARP = TRUE,
                                    !.MAC = IF new.MAC # "" THEN new.MAC ELSE @,
                                    !.Vendor = IF new.Vendor # "" THEN new.Vendor ELSE @]
              ELSE existing
        e2 == IF new.FoundByICMP
              THEN [e1 EXCEPT !.FoundByICMP = TRUE,
                              !.ResponseTime = IF new.ResponseTime > 0
                                               THEN new.ResponseTime ELSE @]
              ELSE e1
    IN  IF new.FoundByTCP THEN [e2 EXCEPT !.FoundByTCP = TRUE] ELSE e2

\* cap(resultChan)
ChanCap == Len(ips) * 3

\* a closing goroutine that waits for two of the three producers only
WaitGroupDoneMissesOne == wg <= 1

\* a closing goroutine whose wait group was raised once more than it is
\* lowered
WaitGroupDoneCountsFour == wg + 1 = 0

\* wg.Wait() of the closing goroutine returns
WaitGroupDone == wg = 0

\* the heap cell that holds the loop variable `result` in this iteration
LoopVarCell == IF PerIterationLoopVar THEN Len(cells) + 1 ELSE 1

\* the sequences that list every element of the finite set S exactly once
Orderings(S) ==
    { f \in [1..Cardinality(S) -> S] : \A x \in S : \E i \in DOMAIN f : f[i] = x }

\* the rearrangements of sequence s that sort.Slice may leave behind
SortedByIP(s) ==
    { [i \in DOMAIN s |-> s[p[i]]] : p \in
        { q \in Orderings(DOMAIN s) :
            \A i, j \in DOMAIN s : i < j => ipToInt(s[q[i]].IP) <= ipToInt(s[q[j]].IP) } }

(***************************************************************************)
(* PortScanner: port probes and ScanHost                                   *)
(***************************************************************************)
\* how a dial ends: established, or an error: ECONNREFUSED, a timeout, or
\* any other (no route to host, ...)
DialOutcomes == {"established", "refused", "timeout", "unreachable"}

\* how conn.Write ends
WriteOutcomes == {"written", "failed"}

\* how conn.Read ends: n > 0 bytes, a datagram of 0 bytes (n = 0 and a nil
\* error, UDP only), or an error: the read deadline, or ECONNREFUSED after an
\* ICMP port unreachable
ReadOutcomes == {"data", "empty", "timeout", "refused"}

\* PortScanResult (Service is lookupService(port, protocol))
PortResult(ip, port, protocol, state, banner) ==
    [IP |-> ip, Port |-> port, Protocol |-> protocol, State |-> state, Banner |-> banner]

\* what a probe function returns: the result (none for nil) and the error
Returns(results, e) == [out |-> results, err |-> e]

\* a scanTCPPort that takes every dial error but a timeout for a refusal
scanTCPPortClosedUnlessTimeout(ip, port, dial, read) ==
    IF dial = "established"
    THEN Returns(<< PortResult(ip, port, "tcp", "open", IF read = "data" THEN "banner" ELSE "") >>, "nil")
    ELSE IF dial = "timeout"
         THEN Returns(<< PortResult(ip, port, "tcp", "filtered", "") >>, "nil")
         ELSE Returns(<< PortResult(ip, port, "tcp", "closed", "") >>, "nil")

\* PortScanner.scanTCPPort
scanTCPPort(ip, port, dial, read) ==
    IF dial # "established"
    THEN IF dial = "refused"
         THEN Returns(<< PortResult(ip, port, "tcp", "closed", "") >>, "nil")
         ELSE IF dial = "timeout"
              THEN Returns(<< PortResult(ip, port, "tcp", "filtered", "") >>, "nil")
              ELSE Returns(<< PortResult(ip, port, "tcp", "filtered", "") >>, "nil")
    ELSE Returns(<< PortResult(ip, port, "tcp", "open",
                               IF read = "data" THEN "banner" ELSE "") >>, "nil")

\* PortScanner.scanUDPPort
scanUDPPort(ip, port, dial, write, read) ==
    IF dial # "established"
    THEN Returns(<< PortResult(ip, port, "udp", "filtered", "") >>, "nil")
    ELSE IF write # "written"
         THEN Returns(<< PortResult(ip, port, "udp", "filtered", "") >>, "nil")
         ELSE IF read = "data"
              THEN Returns(<< PortResult(ip, port, "udp", "open", "banner") >>, "nil")
              ELSE Returns(<< PortResult(ip, port, "udp", "filtered", "") >>, "nil")

\* PublicAssetScanner.scanUDPPort: a pointer, nil when dial or write fails
PublicScanUDPPort(ip, port, dial, write, read) ==
    IF dial # "established" THEN Returns(<< >>, "nil")
    ELSE IF write # "written" THEN Returns(<< >>, "nil")
    ELSE Returns(<< PortResult(ip, port, "udp",
                               IF read = "data" THEN "open" ELSE "filtered",
                               IF read = "data" THEN "banner" ELSE "") >>, "nil")

\* ScanHost: the candidate ports
commonTCPPorts ==
    << 20, 21, 22, 23, 25, 53, 80, 110, 111, 135, 139, 143, 443,
       445, 993, 995, 1723, 3306, 3389, 5900, 8080 >>

commonUDPPorts == << 53, 67, 68, 69, 123, 135, 137, 138, 161, 162, 445, 514, 631, 1900 >>

\* what a host does with probes: the TCP ports it accepts on, the UDP ports
\* it answers on, and whether it refuses the rest or lets them time out
PortProfile(tcp, udp, refuses) == [tcp |-> tcp, udp |-> udp, refuses |-> refuses]

PortProfiles ==
    { PortProfile({}, {}, TRUE), PortProfile({80}, {}, TRUE), PortProfile({80}, {}, FALSE),
      PortProfile({22, 80}, {}, FALSE), PortProfile({80}, {161}, TRUE) }

\* how the dial of a TCP candidate port ends on a host with profile e
TCPDial(e, port) ==
    IF port \in e.tcp THEN "established" ELSE IF e.refuses THEN "refused" ELSE "timeout"

\* how the read after a UDP probe ends on a host with profile e
UDPRead(e, port) ==
    IF port \in e.udp THEN "data" ELSE IF e.refuses THEN "refused" ELSE "timeout"

\* the results the TCP goroutine of ScanHost sends, in order (the services
\* send no banner)
ScanHostTCP(ip, e) ==
    [k \in DOMAIN commonTCPPorts |->
        scanTCPPort(ip, commonTCPPorts[k], TCPDial(e, commonTCPPorts[k]), "timeout").out[1]]

\* the results the UDP goroutine of ScanHost sends, in order
ScanHostUDP(ip, e) ==
    [k \in DOMAIN commonUDPPorts |->
        scanUDPPort(ip, commonUDPPorts[k], "established", "written",
                    UDPRead(e, commonUDPPorts[k])).out[1]]

\* the sequences that hold the entries of a and of b, each in its own order
RECURSIVE Interleavings(_, _)
Interleavings(a, b) ==
    IF Len(a) = 0 THEN {b}
    ELSE IF Len(b) = 0 THEN {a}
    ELSE { << Head(a) >> \o s : s \in Interleavings(Tail(a), b) }
            \cup { << Head(b) >> \o s : s \in Interleavings(a, Tail(b)) }

\* a collection that keeps every port that answered, open or closed
CollectAnswered(results) ==
    LET answered(r) == r.State # "filtered" IN SelectSeq(results, answered)

\* performPortScanning, lines 249-253: the results with State == PortOpen
CollectOpen(results) ==
    LET open(r) == r.State = "open" IN SelectSeq(results, open)

\* the port records performPortScanning can append for ip on a host with
\* profile e: the open results of ScanHost, which receives the results of its
\* two goroutines in any interleaving
OpenPortsFound(ip, e) ==
    Interleavings(CollectOpen(ScanHostTCP(ip, e)), CollectOpen(ScanHostUDP(ip, e)))

\* the port records performPortScanning can append for ip
ScanHostOpen(ip) == UNION { OpenPortsFound(ip, e) : e \in PortProfiles }

(***************************************************************************)
(* EnhancedDiscovery.DiscoverHosts                                         *)
(***************************************************************************)
\* no ScanNetworkParallel call is being followed
ARPIdle ==
    /\ aCidr = BadCIDR
    /\ aWorkers = 0
    /\ aPc = "idle"
    /\ aIps = << >>
    /\ aIdx = 0
    /\ ipChan = << >>
    /\ ipChanClosed = FALSE
    /\ arpResultChan = << >>
    /\ arpResultClosed = FALSE
    /\ errChan = << >>
    /\ doneClosed = FALSE
    /\ aResults = << >>
    /\ aWg = 0
    /\ wPc = << >>
    /\ wCur = << >>
    /\ wSock = << >>
    /\ wUse = << >>
    /\ collectorPc = "idle"
    /\ aRet = [returned |-> FALSE, results |-> << >>, err |-> "none", worker |-> 0]
    /\ failedWorkers = << >>

\* no DiscoverTargets call is being followed
SmartIdle ==
    /\ localNetwork = BadCIDR
    /\ arpScannerSet = FALSE
    /\ localCIDR = [kind |-> "blank", ip |-> <<0, 0, 0, 0>>, bits |-> 0]
    /\ fileTargets = << >>
    /\ sPc = "idle"
    /\ sIdx = 0
    /\ allResults = << >>
    /\ strategies = << >>

\* no PingHosts call is being followed
PingIdle ==
    /\ pWorkers = 0
    /\ pIps = << >>
    /\ pPc = "idle"
    /\ pIpChan = << >>
    /\ pResultChan = << >>
    /\ pResultClosed = FALSE
    /\ pWg = 0
    /\ pwPc = << >>
    /\ pwCur = << >>
    /\ pCloserPc = "idle"
    /\ pResults = << >>
    /\ pProbes = {}

\* no discoverRemote call is being followed
RemoteIdle ==
    /\ rPc = "idle"
    /\ rPings = {}
    /\ rTcps = {}

\* no call of CIDRToIPRange is being stepped through
RangeIdle ==
    /\ cNet = BadCIDR
    /\ cIP = <<0, 0, 0, 0>>
    /\ cIps = << >>
    /\ cRet = << >>
    /\ cPc = "idle"

\* no connection prober is being stepped through
ProbeIdle ==
    /\ tFunc = "performTCPDiscovery"
    /\ tIps = << >>
    /\ tOpen = [h \in Hosts |-> {}]
    /\ tI = 0
    /\ tP = 1
    /\ tDialed = << >>
    /\ tErr = ""
    /\ tOut = << >>
    /\ tPc = "idle"

\* no record is being merged into
MergeIdle ==
    /\ mNew = << >>
    /\ mTrail = << >>

\* no call of removeDuplicateAssets is being stepped through
AssetsIdle ==
    /\ uAssets = << >>
    /\ uTrail = << >>
    /\ uRet = << >>
    /\ uPc = "idle"

\* no single port probe is being stepped through
ProbeCallIdle ==
    /\ kCall = << >>
    /\ kOut = << >>
    /\ kErr = ""
    /\ kPc = "idle"

\* no performPortScanning call is being stepped through
HostScanIdle ==
    /\ hEnv = [h \in Hosts |-> PortProfile({}, {}, TRUE)]
    /\ hI = 0
    /\ hPc = "idle"
    /\ hTcp = 0
    /\ hUdp = 0

\* no file-target scan is being stepped through
FileScanIdle ==
    /\ fLines = << >>
    /\ fExclude = BadCIDR
    /\ fIdx = 0
    /\ fCidrs = << >>
    /\ fErr = ""
    /\ fScanned = << >>
    /\ fPc = "idle"

\* no scanIPWithRetry call is being followed
RetryIdle ==
    /\ yOutcomes = << >>
    /\ yI = 0
    /\ yResolves = 0
    /\ yLastErr = "nil"
    /\ yRet = << >>
    /\ yPc = "idle"

\* no packet-level ping is being followed
EchoIdle ==
    /\ eTargets = << >>
    /\ eSock = << >>
    /\ eQueue = << >>
    /\ eNet = {}
    /\ ePc = << >>
    /\ eAlive = << >>

\* no ScanPublicAssets call is being followed
PublicIdle ==
    /\ bEnv = PortProfile({}, {}, TRUE)
    /\ bTcpPorts = {}
    /\ bUdpPorts = {}
    /\ bPc = "idle"
    /\ bJobs = {}
    /\ bResults = << >>
    /\ bOpenPorts = << >>

\* performScan is not running
PerformScanIdle ==
    /\ gCfg = [local |-> FALSE, file |-> FALSE]
    /\ gLocal = << >>
    /\ gFile = << >>
    /\ gAll = << >>
    /\ gMap = << >>
    /\ gNext = 0
    /\ gUnique = << >>
    /\ gSaved = << >>
    /\ gPc = "idle"

\* the daemon is not running
DaemonIdle ==
    /\ nPc = "idle"
    /\ nTick = 0
    /\ nStop = << >>
    /\ nScans = 0
    /\ nRunning = 0
    /\ nClosed = FALSE

\* DiscoverHosts has not started: nothing made, nothing sent
DiscoverAtRest ==
    /\ ips = << >>
    /\ resultChan = << >>
    /\ chanClosed = FALSE
    /\ closerPc = "idle"
    /\ wg = 0
    /\ arpPc = "idle"
    /\ arpNetwork = BadCIDR
    /\ arpPending = {}
    /\ arpFailure = "none"
    /\ icmpPc = "idle"
    /\ icmpPending = {}
    /\ tcpPc = "idle"
    /\ tcpIdx = 0
    /\ cells = << >>
    /\ resultsMap = << >>
    /\ iter = 0
    /\ activeResults = << >>
    /\ err = "none"
    /\ sent = {}
    /\ sendOnClosed = FALSE
    /\ scannedPorts = {}

InitDiscover ==
    /\ cidr \in CidrInputs
    /\ enablePortScan \in BOOLEAN
    /\ arpReply \in SUBSET Hosts
    /\ echoReply \in SUBSET Hosts
    /\ tcpAccept \in SUBSET Hosts
    /\ Cardinality(arpReply) + Cardinality(echoReply) + Cardinality(tcpAccept) <= MaxAnswers
    /\ pc = "call"
    /\ DiscoverAtRest
    /\ ARPIdle
    /\ SmartIdle
    /\ PingIdle
    /\ RemoteIdle
    /\ RangeIdle
    /\ ProbeIdle
    /\ MergeIdle
    /\ AssetsIdle
    /\ ProbeCallIdle
    /\ HostScanIdle
    /\ FileScanIdle
    /\ RetryIdle
    /\ EchoIdle
    /\ PublicIdle
    /\ PerformScanIdle
    /\ DaemonIdle

\* lines 66-72: the prefix does not parse; return nil and the error
ParseFail ==
    /\ pc = "call"
    /\ ~cidr.valid
    /\ pc' = "done"
    /\ err' = "parse"
    /\ UNCHANGED << cidr, enablePortScan, arpReply, echoReply, tcpAccept, ips,
                    resultChan, chanClosed, closerPc, wg, arpPc, arpNetwork,
                    arpPending, arpFailure, icmpPc, icmpPending, tcpPc, tcpIdx,
                    cells, resultsMap, iter, activeResults, sent, sendOnClosed,
                    scannedPorts, avars, svars, pvars, rvars, cvars, tvars, mvars,
                    uvars, kvars, hvars, fvars, yvars, evars, bvars, gvars, nvars >>

\* lines 69-109: expand the prefix, make the channel, start the three
\* producers (wg.Add(1) before each) and the closing goroutine
StartDiscovery ==
    /\ pc = "call"
    /\ cidr.valid
    /\ ips' = CIDRToIPRange(cidr)
    /\ wg' = 3
    /\ arpPc' = "run"
    /\ icmpPc' = "run"
    /\ tcpPc' = "run"
    /\ closerPc' = "wait"
    /\ pc' = "merge"
    /\ UNCHANGED << cidr, enablePortScan, arpReply, echoReply, tcpAccept,
                    resultChan, chanClosed, arpNetwork, arpPending, arpFailure,
                    icmpPending, tcpIdx, cells, resultsMap, iter, activeResults,
                    err, sent, sendOnClosed, scannedPorts, avars, svars, pvars,
                    rvars, cvars, tvars, mvars, uvars, kvars, hvars, fvars, yvars,
                    evars, bvars, gvars, nvars >>

\* a send of finding r on resultChan by a producer
Send(r) ==
    /\ Len(resultChan) < ChanCap
    /\ resultChan' = Append(resultChan, r)
    /\ sent' = sent \cup {r}
    /\ sendOnClosed' = (sendOnClosed \/ chanClosed)

\* performARPDiscovery, lines 148-152: scan the network ipsToNetwork(ips)
ARPScan ==
    /\ arpPc = "run"
    /\ arpNetwork' = ipsToNetwork(ips)
    /\ \E out \in ScanNetworkParallelOutcomes(ipsToNetwork(ips)) :
          /\ arpPending' = IF out.failure = "returned" THEN {} ELSE out.results
          /\ arpFailure' = out.failure
    /\ arpPc' = "send"
    /\ UNCHANGED << cidr, enablePortScan, arpReply, echoReply, tcpAccept, pc, ips,
                    resultChan, chanClosed, closerPc, wg, icmpPc, icmpPending,
                    tcpPc, tcpIdx, cells, resultsMap, iter, activeResults, err,
                    sent, sendOnClosed, scannedPorts, avars, svars, pvars, rvars,
                    cvars, tvars, mvars, uvars, kvars, hvars, fvars, yvars, evars,
                    bvars, gvars, nvars >>

\* performARPDiscovery, lines 154-162: send the next ARP result
ARPSend ==
    /\ arpPc = "send"
    /\ \E ip \in arpPending :
          /\ Send(ARPFinding(ip))
          /\ arpPending' = arpPending \ {ip}
    /\ UNCHANGED << cidr, enablePortScan, arpReply, echoReply, tcpAccept, pc, ips,
                    chanClosed, closerPc, wg, arpPc, arpNetwork, arpFailure, icmpPc,
                    icmpPending, tcpPc, tcpIdx, cells, resultsMap, iter,
                    activeResults, err, scannedPorts, avars, svars, pvars, rvars,
                    cvars, tvars, mvars, uvars, kvars, hvars, fvars, yvars, evars,
                    bvars, gvars, nvars >>

\* lines 83-87: performARPDiscovery returned; deferred wg.Done()
ARPDone ==
    /\ arpPc = "send"
    /\ arpPending = {}
    /\ arpPc' = "done"
    /\ wg' = wg - 1
    /\ UNCHANGED << cidr, enablePortScan, arpReply, echoReply, tcpAccept, pc, ips,
                    resultChan, chanClosed, closerPc, arpNetwork, arpPending,
                    arpFailure, icmpPc, icmpPending, tcpPc, tcpIdx, cells,
                    resultsMap, iter, activeResults, err, sent, sendOnClosed,
                    scannedPorts, avars, svars, pvars, rvars, cvars, tvars, mvars,
                    uvars, kvars, hvars, fvars, yvars, evars, bvars, gvars, nvars >>

\* performICMPDiscovery, line 167: PingHosts(ips) pings every address
ICMPScan ==
    /\ icmpPc = "run"
    /\ \E raw \in BOOLEAN :
          icmpPending' = {ip \in echoReply \cup tcpAccept :
                              ip \in Range(ips) /\ PingHost(ip, raw)}
    /\ icmpPc' = "send"
    /\ UNCHANGED << cidr, enablePortScan, arpReply, echoReply, tcpAccept, pc, ips,
                    resultChan, chanClosed, closerPc, wg, arpPc, arpNetwork,
                    arpPending, arpFailure, tcpPc, tcpIdx, cells, resultsMap, iter,
                    activeResults, err, sent, sendOnClosed, scannedPorts, avars,
                    svars, pvars, rvars, cvars, tvars, mvars, uvars, kvars, hvars,
                    fvars, yvars, evars, bvars, gvars, nvars >>

\* performICMPDiscovery, lines 169-178: send the next successful ping
ICMPSend ==
    /\ icmpPc = "send"
    /\ \E ip \in icmpPending, rtt \in RoundTripTimes :
          /\ Send(ICMPFinding(ip, rtt))
          /\ icmpPending' = icmpPending \ {ip}
    /\ UNCHANGED << cidr, enablePortScan, arpReply, echoReply, tcpAccept, pc, ips,
                    chanClosed, closerPc, wg, arpPc, arpNetwork, arpPending,
                    arpFailure, icmpPc, tcpPc, tcpIdx, cells, resultsMap, iter,
                    activeResults, err, scannedPorts, avars, svars, pvars, rvars,
                    cvars, tvars, mvars, uvars, kvars, hvars, fvars, yvars, evars,
                    bvars, gvars, nvars >>

\* lines 91-95: performICMPDiscovery returned; deferred wg.Done()
ICMPDone ==
    /\ icmpPc = "send"
    /\ icmpPending = {}
    /\ icmpPc' = "done"
    /\ wg' = wg - 1
    /\ UNCHANGED << cidr, enablePortScan, arpReply, echoReply, tcpAccept, pc, ips,
                    resultChan, chanClosed, closerPc, arpPc, arpNetwork, arpPending,
                    arpFailure, icmpPending, tcpPc, tcpIdx, cells, resultsMap, iter,
                    activeResults, err, sent, sendOnClosed, scannedPorts, avars,
                    svars, pvars, rvars, cvars, tvars, mvars, uvars, kvars, hvars,
                    fvars, yvars, evars, bvars, gvars, nvars >>

\* the indexes after tcpIdx whose address accepts a connection
TCPLive == {i \in DOMAIN ips : i > tcpIdx /\ pingTCP(ips[i])}

\* performTCPDiscovery, lines 186-204: dial the addresses in order up to the
\* next one that accepts, and send its finding
TCPSend ==
    /\ tcpPc = "run"
    /\ TCPLive # {}
    /\ LET i == CHOOSE k \in TCPLive : \A j \in TCPLive : k <= j
       IN  /\ Send(TCPFinding(ips[i]))
           /\ tcpIdx' = i
    /\ UNCHANGED << cidr, enablePortScan, arpReply, echoReply, tcpAccept, pc, ips,
                    chanClosed, closerPc, wg, arpPc, arpNetwork, arpPending,
                    arpFailure, icmpPc, icmpPending, tcpPc, cells, resultsMap, iter,
                    activeResults, err, scannedPorts, avars, svars, pvars, rvars,
                    cvars, tvars, mvars, uvars, kvars, hvars, fvars, yvars, evars,
                    bvars, gvars, nvars >>

\* lines 99-103: no address is left; performTCPDiscovery returned, wg.Done()
TCPDone ==
    /\ tcpPc = "run"
    /\ TCPLive = {}
    /\ tcpPc' = "done"
    /\ tcpIdx' = Len(ips)
    /\ wg' = wg - 1
    /\ UNCHANGED << cidr, enablePortScan, arpReply, echoReply, tcpAccept, pc, ips,
                    resultChan, chanClosed, closerPc, arpPc, arpNetwork, arpPending,
                    arpFailure, icmpPc, icmpPending, cells, resultsMap, iter,
                    activeResults, err, sent, sendOnClosed, scannedPorts, avars,
                    svars, pvars, rvars, cvars, tvars, mvars, uvars, kvars, hvars,
                    fvars, yvars, evars, bvars, gvars, nvars >>

\* lines 106-109: wg.Wait() returned; close(resultChan)
CloseChan ==
    /\ closerPc = "wait"
    /\ WaitGroupDone
    /\ chanClosed' = TRUE
    /\ closerPc' = "done"
    /\ UNCHANGED << cidr, enablePortScan, arpReply, echoReply, tcpAccept, pc, ips,
                    resultChan, wg, arpPc, arpNetwork, arpPending, arpFailure,
                    icmpPc, icmpPending, tcpPc, tcpIdx, cells, resultsMap, iter,
                    activeResults, err, sent, sendOnClosed, scannedPorts, avars,
                    svars, pvars, rvars, cvars, tvars, mvars, uvars, kvars, hvars,
                    fvars, yvars, evars, bvars, gvars, nvars >>

\* lines 113-120: one iteration of  for result := range resultChan
MergeRecv ==
    /\ pc = "merge"
    /\ resultChan # << >>
    /\ LET c      == LoopVarCell
           cells1 == IF c > Len(cells) THEN Append(cells, Head(resultChan))
                     ELSE [cells EXCEPT ![c] = Head(resultChan)]
           key    == Head(resultChan).IP
       IN  IF key \in DOMAIN resultsMap
           THEN /\ cells' = [cells1 EXCEPT ![resultsMap[key]] =
                                mergeResults(cells1[resultsMap[key]], cells1[c])]
                /\ resultsMap' = resultsMap
           ELSE /\ cells' = cells1
                /\ resultsMap' = (key :> c) @@ resultsMap
    /\ resultChan' = Tail(resultChan)
    /\ iter' = iter + 1
    /\ UNCHANGED << cidr, enablePortScan, arpReply, echoReply, tcpAccept, pc, ips,
                    chanClosed, closerPc, wg, arpPc, arpNetwork, arpPending,
                    arpFailure, icmpPc, icmpPending, tcpPc, tcpIdx, activeResults,
                    err, sent, sendOnClosed, scannedPorts, avars, svars, pvars,
                    rvars, cvars, tvars, mvars, uvars, kvars, hvars, fvars, yvars,
                    evars, bvars, gvars, nvars >>

\* a range loop that ends as soon as it finds the channel empty
RangeLoopEndsWhenEmpty == resultChan = << >>

\* line 113: `for result := range resultChan` ends when the channel is
\* closed and drained
RangeLoopEnds == resultChan = << >> /\ chanClosed

\* line 113: the channel is closed and drained; the range loop ends
MergeEnd ==
    /\ pc = "merge"
    /\ RangeLoopEnds
    /\ pc' = "filter"
    /\ UNCHANGED << cidr, enablePortScan, arpReply, echoReply, tcpAccept, ips,
                    resultChan, chanClosed, closerPc, wg, arpPc, arpNetwork,
                    arpPending, arpFailure, icmpPc, icmpPending, tcpPc, tcpIdx,
                    cells, resultsMap, iter, activeResults, err, sent, sendOnClosed,
                    scannedPorts, avars, svars, pvars, rvars, cvars, tvars, mvars,
                    uvars, kvars, hvars, fvars, yvars, evars, bvars, gvars, nvars >>

\* whether a record passes the filter of line 125
IsActive(r) == r.FoundByARP \/ r.FoundByICMP \/ r.FoundByTCP

\* a phase 2 that runs whenever there are active hosts
PortScanWantedAlways(enable, n) == n > 0

\* line 131: `if enablePortScan && len(activeResults) > 0`
PortScanWanted(enable, n) == enable /\ n > 0

\* lines 123-136: walk the map (in any order), keep the active records
Filter ==
    /\ pc = "filter"
    /\ \E order \in Orderings({k \in DOMAIN resultsMap : IsActive(cells[resultsMap[k]])}) :
          /\ activeResults' = [i \in DOMAIN order |-> cells[resultsMap[order[i]]]]
          /\ pc' = IF PortScanWanted(enablePortScan, Len(order)) THEN "portscan" ELSE "sort"
    /\ UNCHANGED << cidr, enablePortScan, arpReply, echoReply, tcpAccept, ips,
                    resultChan, chanClosed, closerPc, wg, arpPc, arpNetwork,
                    arpPending, arpFailure, icmpPc, icmpPending, tcpPc, tcpIdx,
                    cells, resultsMap, iter, err, sent, sendOnClosed, scannedPorts,
                    avars, svars, pvars, rvars, cvars, tvars, mvars, uvars, kvars,
                    hvars, fvars, yvars, evars, bvars, gvars, nvars >>

\* performPortScanning, lines 232-255: per record, reverse lookup and ScanHost
PortScan ==
    /\ pc = "portscan"
    /\ LET addrs == {activeResults[i].IP : i \in DOMAIN activeResults}
           lists == UNION {ScanHostOpen(a) : a \in addrs}
       IN  /\ \E name \in [addrs -> LookupNames], open \in [addrs -> lists] :
                /\ \A a \in addrs : open[a] \in ScanHostOpen(a)
                /\ activeResults' =
                       [i \in DOMAIN activeResults |->
                           [activeResults[i] EXCEPT
                               !.Hostname = name[activeResults[i].IP],
                               !.OpenPorts = @ \o open[activeResults[i].IP]]]
           /\ scannedPorts' = addrs
    /\ pc' = "sort"
    /\ UNCHANGED << cidr, enablePortScan, arpReply, echoReply, tcpAccept, ips,
                    resultChan, chanClosed, closerPc, wg, arpPc, arpNetwork,
                    arpPending, arpFailure, icmpPc, icmpPending, tcpPc, tcpIdx,
                    cells, resultsMap, iter, err, sent, sendOnClosed, avars, svars,
                    pvars, rvars, cvars, tvars, mvars, uvars, kvars, hvars, fvars,
                    yvars, evars, bvars, gvars, nvars >>

\* the error that line 143 returns whatever a producer met
ReturnedErrorForgetsNothing == IF arpFailure = "returned" THEN "arp" ELSE "nil"

ReturnedError == "nil"

\* lines 139-143: sort by ipToInt and return with a nil error
SortAndReturn ==
    /\ pc = "sort"
    /\ activeResults' \in SortedByIP(activeResults)
    /\ err' = ReturnedError
    /\ pc' = "done"
    /\ UNCHANGED << cidr, enablePortScan, arpReply, echoReply, tcpAccept, ips,
                    resultChan, chanClosed, closerPc, wg, arpPc, arpNetwork,
                    arpPending, arpFailure, icmpPc, icmpPending, tcpPc, tcpIdx,
                    cells, resultsMap, iter, sent, sendOnClosed, scannedPorts,
                    avars, svars, pvars, rvars, cvars, tvars, mvars, uvars, kvars,
                    hvars, fvars, yvars, evars, bvars, gvars, nvars >>

Init == InitDiscover

Next ==
    \/ ParseFail
    \/ StartDiscovery
    \/ ARPScan
    \/ ARPSend
    \/ ARPDone
    \/ ICMPScan
    \/ ICMPSend
    \/ ICMPDone
    \/ TCPSend
    \/ TCPDone
    \/ CloseChan
    \/ MergeRecv
    \/ MergeEnd
    \/ Filter
    \/ PortScan
    \/ SortAndReturn

Spec == Init /\ [][Next]_vars

(***************************************************************************)
(* ParallelARPScanner.ScanNetworkParallel                                  *)
(***************************************************************************)
\* the prefix strings ScanNetworkParallel is called with
ARPCidrInputs ==
    { [valid |-> TRUE, ip |-> <<10, 0, 0, 0>>, bits |-> 30],
      [valid |-> TRUE, ip |-> <<10, 0, 0, 2>>, bits |-> 32],
      [valid |-> TRUE, ip |-> <<10, 0, 0, 0>>, bits |-> 29],
      BadCIDR }

\* no DiscoverHosts call is being followed
DiscoverIdle ==
    /\ cidr = BadCIDR
    /\ enablePortScan = FALSE
    /\ echoReply = {}
    /\ tcpAccept = {}
    /\ pc = "idle"
    /\ DiscoverAtRest

InitARP ==
    /\ DiscoverIdle
    /\ SmartIdle
    /\ arpReply \in SUBSET Hosts
    /\ aCidr \in ARPCidrInputs
    /\ aWorkers \in 1..MaxWorkers
    /\ aPc = "call"
    /\ aIps = << >>
    /\ aIdx = 0
    /\ ipChan = << >>
    /\ ipChanClosed = FALSE
    /\ arpResultChan = << >>
    /\ arpResultClosed = FALSE
    /\ errChan = << >>
    /\ doneClosed = FALSE
    /\ aResults = << >>
    /\ aWg = 0
    /\ wPc = << >>
    /\ wCur = << >>
    /\ wSock = << >>
    /\ wUse = << >>
    /\ collectorPc = "idle"
    /\ aRet = [returned |-> FALSE, results |-> << >>, err |-> "none", worker |-> 0]
    /\ failedWorkers = << >>
    /\ PingIdle
    /\ RemoteIdle
    /\ RangeIdle
    /\ ProbeIdle
    /\ MergeIdle
    /\ AssetsIdle
    /\ ProbeCallIdle
    /\ HostScanIdle
    /\ FileScanIdle
    /\ RetryIdle
    /\ EchoIdle
    /\ PublicIdle
    /\ PerformScanIdle
    /\ DaemonIdle

\* the value of a return statement
Return(results, e, w) == [returned |-> TRUE, results |-> results, err |-> e, worker |-> w]

\* lines 40-43: the prefix does not parse
ARPParseFail ==
    /\ aPc = "call"
    /\ ~aCidr.valid
    /\ aRet' = Return(<< >>, "parse", 0)
    /\ aPc' = "returned"
    /\ UNCHANGED << aCidr, aWorkers, aIps, aIdx, ipChan, ipChanClosed,
                    arpResultChan, arpResultClosed, errChan, dvars, doneClosed,
                    aResults, aWg, wPc, wCur, wSock, wUse, collectorPc,
                    failedWorkers, svars, pvars, rvars, cvars, tvars, mvars, uvars,
                    kvars, hvars, fvars, yvars, evars, bvars, gvars, nvars >>

\* lines 40-92: expand the prefix, make the channels, start the workers
\* (wg.Add(1) before each) and the result collector
ARPStart ==
    /\ aPc = "call"
    /\ aCidr.valid
    /\ aIps' = CIDRToIPRange(aCidr)
    /\ aWg' = aWorkers
    /\ wPc' = [w \in 1..aWorkers |-> "recv"]
    /\ wCur' = [w \in 1..aWorkers |-> << >>]
    /\ wSock' = [w \in 1..aWorkers |-> FALSE]
    /\ wUse' = [w \in 1..aWorkers |-> << >>]
    /\ collectorPc' = "recv"
    /\ aPc' = "dispatch"
    /\ UNCHANGED << aCidr, aWorkers, aIdx, ipChan, ipChanClosed, arpResultChan,
                    arpResultClosed, errChan, doneClosed, dvars, aResults, aRet,
                    failedWorkers, svars, pvars, rvars, cvars, tvars, mvars, uvars,
                    kvars, hvars, fvars, yvars, evars, bvars, gvars, nvars >>

\* line 57: a worker takes the next address from ipChan
WorkerRecv(w) ==
    /\ wPc[w] = "recv"
    /\ ipChan # << >>
    /\ wCur' = [wCur EXCEPT ![w] = Head(ipChan)]
    /\ ipChan' = Tail(ipChan)
    /\ wPc' = [wPc EXCEPT ![w] = "open"]
    /\ UNCHANGED << aCidr, aWorkers, aPc, aIps, aIdx, ipChanClosed, arpResultChan,
                    arpResultClosed, errChan, dvars, doneClosed, aResults, aWg,
                    wSock, wUse, collectorPc, aRet, failedWorkers, svars, pvars,
                    rvars, cvars, tvars, mvars, uvars, kvars, hvars, fvars, yvars,
                    evars, bvars, gvars, nvars >>

\* line 57, 56: ipChan is closed and empty; the worker ends, wg.Done()
WorkerExit(w) ==
    /\ wPc[w] = "recv"
    /\ ipChan = << >>
    /\ ipChanClosed
    /\ wPc' = [wPc EXCEPT ![w] = "exit"]
    /\ aWg' = aWg - 1
    /\ UNCHANGED << aCidr, aWorkers, aPc, aIps, aIdx, ipChan, ipChanClosed,
                    arpResultChan, arpResultClosed, dvars, errChan, doneClosed,
                    aResults, wCur, wSock, wUse, collectorPc, aRet, failedWorkers,
                    svars, pvars, rvars, cvars, tvars, mvars, uvars, kvars, hvars,
                    fvars, yvars, evars, bvars, gvars, nvars >>

\* the ARP sockets: the one NewParallelARPScanner opened (s.ARPScanner,
\* lines 20, 31) and the one worker w opened at line 65
BaseClient == [owner |-> "scanner", worker |-> 0]

WorkerClient(w) == [owner |-> "worker", worker |-> w]

\* a call that resolves through the socket all workers share
scanClientShared(w) == BaseClient

\* line 75: the client scanIPWithRetry is called with
scanClient(w) == WorkerClient(w)

\* lines 64-65, 75: NewARPScanner succeeds, the worker has its own socket;
\* scanIPWithRetry is called and waits for the answer (lines 124, 131)
WorkerOpen(w) ==
    /\ wPc[w] = "open"
    /\ wSock' = [wSock EXCEPT ![w] = TRUE]
    /\ wUse' = [wUse EXCEPT ![w] = << scanClient(w) >>]
    /\ wPc' = [wPc EXCEPT ![w] = "scan"]
    /\ UNCHANGED << aCidr, aWorkers, aPc, aIps, aIdx, ipChan, ipChanClosed,
                    arpResultChan, arpResultClosed, dvars, errChan, doneClosed,
                    aResults, aWg, wCur, collectorPc, aRet, failedWorkers, svars,
                    pvars, rvars, cvars, tvars, mvars, uvars, kvars, hvars, fvars,
                    yvars, evars, bvars, gvars, nvars >>

\* the select of lines 67-70: send the error unless errChan is full
TrySendErr(w) == IF Len(errChan) < 1 THEN Append(errChan, w) ELSE errChan

\* lines 65-72: NewARPScanner fails; offer the error and end, wg.Done()
WorkerOpenFail(w) ==
    /\ wPc[w] = "open"
    /\ errChan' = TrySendErr(w)
    /\ failedWorkers' = Append(failedWorkers, w)
    /\ wPc' = [wPc EXCEPT ![w] = "exit"]
    /\ aWg' = aWg - 1
    /\ UNCHANGED << aCidr, aWorkers, aPc, aIps, aIdx, ipChan, ipChanClosed,
                    arpResultChan, arpResultClosed, dvars, doneClosed, aResults,
                    wCur, wSock, wUse, collectorPc, aRet, svars, pvars, rvars,
                    cvars, tvars, mvars, uvars, kvars, hvars, fvars, yvars, evars,
                    bvars, gvars, nvars >>

\* scanIPWithRetry, lines 114-145: a result when one of the attempts is
\* answered
scanIPWithRetry(ip) ==
    IF ip \in arpReply
    THEN [ok |-> TRUE, IP |-> ip, MAC |-> HardwareAddr(ip),
          Vendor |-> lookupVendor(HardwareAddr(ip))]
    ELSE [ok |-> FALSE, IP |-> ip, MAC |-> "", Vendor |-> ""]

\* lines 75-78: scanIPWithRetry returns; send the result if there is one
WorkerScan(w) ==
    /\ wPc[w] = "scan"
    /\ wUse' = [wUse EXCEPT ![w] = << >>]
    /\ LET r == scanIPWithRetry(wCur[w])
       IN  IF r.ok
           THEN /\ Len(arpResultChan) < Len(aIps)
                /\ arpResultChan' = Append(arpResultChan, r)
           ELSE arpResultChan' = arpResultChan
    /\ wPc' = [wPc EXCEPT ![w] = "close"]
    /\ UNCHANGED << aCidr, aWorkers, aPc, aIps, aIdx, ipChan, ipChanClosed,
                    arpResultClosed, errChan, dvars, doneClosed, aResults, aWg,
                    wCur, wSock, collectorPc, aRet, failedWorkers, svars, pvars,
                    rvars, cvars, tvars, mvars, uvars, kvars, hvars, fvars, yvars,
                    evars, bvars, gvars, nvars >>

\* line 81: client.Close(), then back to the range loop
WorkerClose(w) ==
    /\ wPc[w] = "close"
    /\ wSock' = [wSock EXCEPT ![w] = FALSE]
    /\ wPc' = [wPc EXCEPT ![w] = "recv"]
    /\ UNCHANGED << aCidr, aWorkers, aPc, aIps, aIdx, ipChan, ipChanClosed,
                    arpResultChan, arpResultClosed, dvars, errChan, doneClosed,
                    aResults, aWg, wCur, wUse, collectorPc, aRet, failedWorkers,
                    svars, pvars, rvars, cvars, tvars, mvars, uvars, kvars, hvars,
                    fvars, yvars, evars, bvars, gvars, nvars >>

\* lines 88-90: the collector appends the next result
CollectorRecv ==
    /\ collectorPc = "recv"
    /\ arpResultChan # << >>
    /\ aResults' = Append(aResults, Head(arpResultChan))
    /\ arpResultChan' = Tail(arpResultChan)
    /\ UNCHANGED << aCidr, aWorkers, aPc, aIps, aIdx, ipChan, ipChanClosed,
                    arpResultClosed, errChan, dvars, doneClosed, aWg, wPc, wCur,
                    wSock, wUse, collectorPc, aRet, failedWorkers, svars, pvars,
                    rvars, cvars, tvars, mvars, uvars, kvars, hvars, fvars, yvars,
                    evars, bvars, gvars, nvars >>

\* lines 88, 91: resultChan is closed and empty; close(doneChan)
CollectorEnd ==
    /\ collectorPc = "recv"
    /\ arpResultChan = << >>
    /\ arpResultClosed
    /\ doneClosed' = TRUE
    /\ collectorPc' = "exit"
    /\ UNCHANGED << aCidr, aWorkers, aPc, aIps, aIdx, ipChan, ipChanClosed,
                    arpResultChan, arpResultClosed, dvars, errChan, aResults, aWg,
                    wPc, wCur, wSock, wUse, aRet, failedWorkers, svars, pvars,
                    rvars, cvars, tvars, mvars, uvars, kvars, hvars, fvars, yvars,
                    evars, bvars, gvars, nvars >>

\* lines 95-97: the select takes the send case (ipChan never fills up)
DispatchSend ==
    /\ aPc = "dispatch"
    /\ aIdx < Len(aIps)
    /\ Len(ipChan) < Len(aIps)
    /\ ipChan' = Append(ipChan, aIps[aIdx + 1])
    /\ aIdx' = aIdx + 1
    /\ UNCHANGED << aCidr, aWorkers, aPc, aIps, ipChanClosed, arpResultChan,
                    arpResultClosed, errChan, doneClosed, dvars, aResults, aWg, wPc,
                    wCur, wSock, wUse, collectorPc, aRet, failedWorkers, svars,
                    pvars, rvars, cvars, tvars, mvars, uvars, kvars, hvars, fvars,
                    yvars, evars, bvars, gvars, nvars >>

\* lines 98-100: the select takes the error case; close(ipChan), return
DispatchError ==
    /\ aPc = "dispatch"
    /\ aIdx < Len(aIps)
    /\ errChan # << >>
    /\ errChan' = Tail(errChan)
    /\ ipChanClosed' = TRUE
    /\ aRet' = Return(<< >>, "worker", Head(errChan))
    /\ aPc' = "returned"
    /\ UNCHANGED << aCidr, aWorkers, aIps, aIdx, ipChan, arpResultChan,
                    arpResultClosed, doneClosed, aResults, dvars, aWg, wPc, wCur,
                    wSock, wUse, collectorPc, failedWorkers, svars, pvars, rvars,
                    cvars, tvars, mvars, uvars, kvars, hvars, fvars, yvars, evars,
                    bvars, gvars, nvars >>

\* line 103: every address is handed out; close(ipChan)
DispatchEnd ==
    /\ aPc = "dispatch"
    /\ aIdx = Len(aIps)
    /\ ipChanClosed' = TRUE
    /\ aPc' = "wait"
    /\ UNCHANGED << aCidr, aWorkers, aIps, aIdx, ipChan, arpResultChan,
                    arpResultClosed, errChan, doneClosed, dvars, aResults, aWg, wPc,
                    wCur, wSock, wUse, collectorPc, aRet, failedWorkers, svars,
                    pvars, rvars, cvars, tvars, mvars, uvars, kvars, hvars, fvars,
                    yvars, evars, bvars, gvars, nvars >>

\* lines 106-107: wg.Wait() returns; close(resultChan)
WaitWorkers ==
    /\ aPc = "wait"
    /\ aWg = 0
    /\ arpResultClosed' = TRUE
    /\ aPc' = "waitDone"
    /\ UNCHANGED << aCidr, aWorkers, aIps, aIdx, ipChan, ipChanClosed,
                    arpResultChan, errChan, doneClosed, dvars, aResults, aWg, wPc,
                    wCur, wSock, wUse, collectorPc, aRet, failedWorkers, svars,
                    pvars, rvars, cvars, tvars, mvars, uvars, kvars, hvars, fvars,
                    yvars, evars, bvars, gvars, nvars >>

\* lines 108-110: doneChan is closed; return the results and a nil error
ReturnResults ==
    /\ aPc = "waitDone"
    /\ doneClosed
    /\ aRet' = Return(aResults, "nil", 0)
    /\ aPc' = "returned"
    /\ UNCHANGED << aCidr, aWorkers, aIps, aIdx, ipChan, ipChanClosed,
                    arpResultChan, arpResultClosed, errChan, dvars, doneClosed,
                    aResults, aWg, wPc, wCur, wSock, wUse, collectorPc,
                    failedWorkers, svars, pvars, rvars, cvars, tvars, mvars, uvars,
                    kvars, hvars, fvars, yvars, evars, bvars, gvars, nvars >>

NextARP ==
    \/ ARPParseFail
    \/ ARPStart
    \/ \E w \in DOMAIN wPc : WorkerRecv(w)
    \/ \E w \in DOMAIN wPc : WorkerExit(w)
    \/ \E w \in DOMAIN wPc : WorkerOpen(w)
    \/ \E w \in DOMAIN wPc : WorkerOpenFail(w)
    \/ \E w \in DOMAIN wPc : WorkerScan(w)
    \/ \E w \in DOMAIN wPc : WorkerClose(w)
    \/ CollectorRecv
    \/ CollectorEnd
    \/ DispatchSend
    \/ DispatchError
    \/ DispatchEnd
    \/ WaitWorkers
    \/ ReturnResults

SpecARP == InitARP /\ [][NextARP]_vars

\* C30: during ScanNetworkParallel no ARP socket is used by two goroutines
\* at once: a worker resolves only through the open socket it made itself,
\* never through the scanner's shared one, and a worker that waits for the
\* next address or has ended holds no open socket
C30_WorkersUseOwnSockets ==
    /\ \A w \in DOMAIN wUse :
          wUse[w] # << >> =>
              /\ wUse[w][1] = WorkerClient(w)
              /\ wUse[w][1] # BaseClient
              /\ wSock[w]
    /\ \A v, w \in DOMAIN wUse :
          (v # w /\ wUse[v] # << >> /\ wUse[w] # << >>) => wUse[v] # wUse[w]
    /\ \A w \in DOMAIN wPc :
          wPc[w] \in {"recv", "exit"} => (~wSock[w] /\ wUse[w] = << >>)

\* two workers are resolving at the same time, and one of them has already
\* closed an earlier socket
C30_Witness ==
    \E v, w \in DOMAIN wUse :
        /\ v # w
        /\ wUse[v] # << >>
        /\ wUse[w] # << >>
        /\ aIdx > Cardinality({v, w})
        /\ Len(ipChan) + Cardinality({v, w}) < aIdx

\* the summary DiscoverHosts uses for this call is one the workers produce
ARPSummaryAgrees ==
    aPc = "returned" =>
        [ results |-> {aRet.results[i].IP : i \in DOMAIN aRet.results},
          failure |-> IF aRet.err # "nil" THEN "returned"
                      ELSE IF failedWorkers # << >> THEN "dropped" ELSE "none" ]
            \in ScanNetworkParallelOutcomes(aCidr)

\* C6: once a worker has failed to open its socket, a call that returns
\* returns the error of the first such worker and no result list
C6_WorkerFailureReturned ==
    (aPc = "returned" /\ failedWorkers # << >>) =>
        /\ aRet.err = "worker"
        /\ aRet.worker = failedWorkers[1]
        /\ aRet.results = << >>

(***************************************************************************)
(* SmartDiscovery.DiscoverTargets                                          *)
(***************************************************************************)
\* A target string is [kind, ip, bits]: "cidr" an address and a prefix
\* length net.ParseCIDR accepts, "ip" a single address, "bad" a string that
\* is neither, "comment" a line starting with #, "blank" the empty string.
CIDRTarget(ip, bits) == [kind |-> "cidr", ip |-> ip, bits |-> bits]

IPTarget(ip) == [kind |-> "ip", ip |-> ip, bits |-> 32]

OtherTarget(kind) == [kind |-> kind, ip |-> <<0, 0, 0, 0>>, bits |-> 0]

\* the string as net.ParseCIDR reads it: a single address has no "/"
AsCIDR(t) ==
    IF t.kind = "cidr" THEN [valid |-> TRUE, ip |-> t.ip, bits |-> t.bits] ELSE BadCIDR

\* the machines around the scanner: two on its segment, one beyond a router
SmartHosts == Hosts \cup { <<10, 0, 1, 1>> }

\* getLocalNetwork: the address and mask of the interface, or nil
SmartLocalNetworks ==
    { BadCIDR,
      [valid |-> TRUE, ip |-> <<10, 0, 0, 6>>, bits |-> 29],
      [valid |-> TRUE, ip |-> <<10, 0, 0, 6>>, bits |-> 24] }

\* the localCIDR argument: none, the detected one, the configured default
SmartLocalCIDRs ==
    { OtherTarget("blank"), CIDRTarget(<<10, 0, 0, 0>>, 30), CIDRTarget(<<10, 0, 1, 0>>, 30) }

\* the fileTargets argument: the lines of the targets file
SmartFileTargets ==
    { << >>,
      << OtherTarget("comment"), IPTarget(<<10, 0, 0, 2>>) >>,
      << CIDRTarget(<<10, 0, 0, 0>>, 30) >>,
      << CIDRTarget(<<10, 0, 1, 0>>, 30) >>,
      << OtherTarget("bad"), IPTarget(<<10, 0, 1, 1>>) >> }

\* parseTarget: the addresses of a prefix, the single address, or an error
parseTarget(t) ==
    IF t.kind = "cidr" THEN [ok |-> TRUE, ips |-> CIDRToIPRange(AsCIDR(t))]
    ELSE IF t.kind = "ip" THEN [ok |-> TRUE, ips |-> << t.ip >>]
    ELSE [ok |-> FALSE, ips |-> << >>]

\* determineStrategy: local when the FIRST address of the target lies in
\* sd.localNetwork
determineStrategy(t) ==
    IF ~localNetwork.valid THEN "remote"
    ELSE LET p == parseTarget(t)
         IN  IF ~p.ok \/ Len(p.ips) = 0 THEN "remote"
             ELSE IF Contains(localNetwork, p.ips[1]) THEN "local"
             ELSE "remote"

\* the target of the step DiscoverTargets is at
CurrentTarget == IF sIdx = 0 THEN localCIDR ELSE fileTargets[sIdx]

\* the strategy discoverNetwork is called with: StrategyLocal for localCIDR
\* (line 182), determineStrategy(target) for a file target (line 214)
CurrentStrategy == IF sIdx = 0 THEN "local" ELSE determineStrategy(CurrentTarget)

\* line 180 / lines 194-197: the step is skipped without a discovery
Skipped ==
    IF sIdx = 0 THEN localCIDR.kind = "blank"
    ELSE CurrentTarget.kind \in {"blank", "comment"}

\* a SmartDiscoveryResult: the embedded DiscoveryResult and three fields
SmartDiscoveryResult(r, strategy, isLocal, network) ==
    r @@ [Strategy |-> strategy, IsLocal |-> isLocal, NetworkSegment |-> network]

\* a record built as discoverLocal builds one: StrategyLocal, IsLocal true
RemoteRecordMarkedLocal(ip, pings, tcps, rtt, network) ==
    [ IP |-> ip, FoundByARP |-> FALSE, FoundByICMP |-> ip \in pings,
      FoundByTCP |-> ip \in tcps, MAC |-> "", Vendor |-> "", Hostname |-> "",
      OpenPorts |-> << >>, ResponseTime |-> IF ip \in pings THEN rtt ELSE 0,
      Strategy |-> "local", IsLocal |-> TRUE, NetworkSegment |-> network ]

\* discoverRemote, lines 304-351: what the map holds for ip after the ICMP
\* results and then the TCP results were processed
RemoteRecord(ip, pings, tcps, rtt, network) ==
    SmartDiscoveryResult(
        NewResult(ip, FALSE, ip \in pings, ip \in tcps, "", "",
                  IF ip \in pings THEN rtt ELSE 0),
        "remote", FALSE, network)

InitSmart ==
    /\ localNetwork \in SmartLocalNetworks
    /\ arpScannerSet \in (IF localNetwork.valid THEN BOOLEAN ELSE {FALSE})
    /\ localCIDR \in SmartLocalCIDRs
    /\ fileTargets \in SmartFileTargets
    /\ enablePortScan \in BOOLEAN
    /\ arpReply \in SUBSET {h \in SmartHosts : localNetwork.valid /\ Contains(localNetwork, h)}
    /\ echoReply \in SUBSET SmartHosts
    /\ tcpAccept \in SUBSET SmartHosts
    /\ Cardinality(arpReply) + Cardinality(echoReply) + Cardinality(tcpAccept)
          <= MaxSmartAnswers
    /\ sPc = "outer"
    /\ sIdx = 0
    /\ allResults = << >>
    /\ strategies = << >>
    /\ cidr = BadCIDR
    /\ pc = "idle"
    /\ DiscoverAtRest
    /\ ARPIdle
    /\ PingIdle
    /\ RemoteIdle
    /\ RangeIdle
    /\ ProbeIdle
    /\ MergeIdle
    /\ AssetsIdle
    /\ ProbeCallIdle
    /\ HostScanIdle
    /\ FileScanIdle
    /\ RetryIdle
    /\ EchoIdle
    /\ PublicIdle
    /\ PerformScanIdle
    /\ DaemonIdle

\* DiscoverHosts is set to the given position with nothing made or sent
DiscoverReset(c, p) ==
    /\ cidr' = c
    /\ pc' = p
    /\ ips' = << >>
    /\ resultChan' = << >>
    /\ chanClosed' = FALSE
    /\ closerPc' = "idle"
    /\ wg' = 0
    /\ arpPc' = "idle"
    /\ arpNetwork' = BadCIDR
    /\ arpPending' = {}
    /\ arpFailure' = "none"
    /\ icmpPc' = "idle"
    /\ icmpPending' = {}
    /\ tcpPc' = "idle"
    /\ tcpIdx' = 0
    /\ cells' = << >>
    /\ resultsMap' = << >>
    /\ iter' = 0
    /\ activeResults' = << >>
    /\ err' = "none"
    /\ sent' = {}
    /\ sendOnClosed' = FALSE
    /\ scannedPorts' = {}

\* what discoverNetwork did for the current target
StepEntry(outcome, network) ==
    [target |-> CurrentTarget, strategy |-> CurrentStrategy, outcome |-> outcome,
     arpNetwork |-> network]

\* lines 183-187 / 200-204: a step ends; its results, if any, are appended
StepEnds(results, outcome, network) ==
    /\ allResults' = allResults \o results
    /\ strategies' = Append(strategies, StepEntry(outcome, network))
    /\ sIdx' = sIdx + 1
    /\ sPc' = "outer"

\* DiscoverTargets is about to look at a target
AtTarget == sPc = "outer" /\ sIdx <= Len(fileTargets)

\* line 180: localCIDR is empty; lines 194-197: blank line or comment
SmartSkip ==
    /\ AtTarget
    /\ Skipped
    /\ sIdx' = sIdx + 1
    /\ UNCHANGED << avars, dvars, localNetwork, arpScannerSet, localCIDR,
                    fileTargets, sPc, allResults, strategies, pvars, rvars, cvars,
                    tvars, mvars, uvars, kvars, hvars, fvars, yvars, evars, bvars,
                    gvars, nvars >>

\* discoverNetwork, lines 224-227: parseTarget fails, the step is logged
SmartParseFail ==
    /\ AtTarget
    /\ ~Skipped
    /\ ~parseTarget(CurrentTarget).ok
    /\ StepEnds(<< >>, "parse error", BadCIDR)
    /\ UNCHANGED << avars, dvars, localNetwork, arpScannerSet, localCIDR,
                    fileTargets, pvars, rvars, cvars, tvars, mvars, uvars, kvars,
                    hvars, fvars, yvars, evars, bvars, gvars, nvars >>

\* discoverRemote is entered (line 297) with StrategyRemote or from
\* discoverLocal when sd.arpScanner is nil; PingHosts(ips) is called
SmartRemoteStart ==
    /\ AtTarget
    /\ ~Skipped
    /\ parseTarget(CurrentTarget).ok
    /\ CurrentStrategy = "remote" \/ ~arpScannerSet
    /\ sPc' = "remote"
    /\ rPc' = "ping"
    /\ UNCHANGED << avars, dvars, localNetwork, arpScannerSet, localCIDR,
                    fileTargets, sIdx, allResults, strategies, pvars, rPings, rTcps,
                    cvars, tvars, mvars, uvars, kvars, hvars, fvars, yvars, evars,
                    bvars, gvars, nvars >>

\* discoverRemote, line 304: PingHosts returned, every address was pinged
SmartRemotePing ==
    /\ rPc = "ping"
    /\ \E raw \in BOOLEAN, rtt \in RoundTripTimes :
          rPings' = { [IP |-> ip, RTT |-> rtt] :
                        ip \in {h \in echoReply \cup tcpAccept :
                                  h \in Range(parseTarget(CurrentTarget).ips)
                                  /\ PingHost(h, raw)} }
    /\ rPc' = "sweep"
    /\ UNCHANGED << avars, dvars, svars, pvars, rTcps, cvars, tvars, mvars, uvars,
                    kvars, hvars, fvars, yvars, evars, bvars, gvars, nvars >>

\* discoverRemote, line 308: performTCPSweep(ips) dialled every address
SmartRemoteSweep ==
    /\ rPc = "sweep"
    /\ rTcps' = {ip \in tcpAccept : ip \in Range(parseTarget(CurrentTarget).ips)}
    /\ rPc' = "merge"
    /\ UNCHANGED << avars, dvars, svars, pvars, rPings, cvars, tvars, mvars, uvars,
                    kvars, hvars, fvars, yvars, evars, bvars, gvars, nvars >>

\* discoverRemote, lines 311-359: merge into a map of fresh pointers, walk
\* the map, scan ports if asked, return
SmartRemote ==
    /\ rPc = "merge"
    /\ LET pings == {p.IP : p \in rPings}
           found == pings \cup rTcps
       IN  \E order \in Orderings(found),
              name \in [found -> IF enablePortScan THEN LookupNames ELSE {""}],
              open \in [found -> IF enablePortScan
                                  THEN UNION {ScanHostOpen(a) : a \in found}
                                  ELSE {<< >>}] :
             /\ \A a \in found : enablePortScan => open[a] \in ScanHostOpen(a)
             /\ StepEnds([i \in DOMAIN order |->
                          [RemoteRecord(order[i], pings, rTcps,
                                        IF order[i] \in pings
                                        THEN (CHOOSE p \in rPings : p.IP = order[i]).RTT
                                        ELSE 0,
                                        CurrentTarget)
                              EXCEPT !.Hostname = name[order[i]],
                                     !.OpenPorts = open[order[i]]]],
                      "remote", BadCIDR)
    /\ rPc' = "idle"
    /\ rPings' = {}
    /\ rTcps' = {}
    /\ UNCHANGED << avars, dvars, localNetwork, arpScannerSet, localCIDR,
                    fileTargets, pvars, cvars, tvars, mvars, uvars, kvars, hvars,
                    fvars, yvars, evars, bvars, gvars, nvars >>

\* discoverLocal, lines 263-274: NewEnhancedDiscovery cannot open its socket
SmartEnhancedFail ==
    /\ AtTarget
    /\ ~Skipped
    /\ parseTarget(CurrentTarget).ok
    /\ CurrentStrategy = "local"
    /\ arpScannerSet
    /\ StepEnds(<< >>, "enhanced error", BadCIDR)
    /\ UNCHANGED << avars, dvars, localNetwork, arpScannerSet, localCIDR,
                    fileTargets, pvars, rvars, cvars, tvars, mvars, uvars, kvars,
                    hvars, fvars, yvars, evars, bvars, gvars, nvars >>

\* discoverLocal, line 277: enhanced.DiscoverHosts(network, enablePortScan)
\* is called with the target string
SmartEnhancedCall ==
    /\ AtTarget
    /\ ~Skipped
    /\ parseTarget(CurrentTarget).ok
    /\ CurrentStrategy = "local"
    /\ arpScannerSet
    /\ DiscoverReset(AsCIDR(CurrentTarget), "call")
    /\ sPc' = "inner"
    /\ UNCHANGED << enablePortScan, arpReply, echoReply, tcpAccept, avars,
                    localNetwork, arpScannerSet, localCIDR, fileTargets, sIdx,
                    allResults, strategies, pvars, rvars, cvars, tvars, mvars,
                    uvars, kvars, hvars, fvars, yvars, evars, bvars, gvars, nvars >>

\* discoverLocal, lines 278-293: DiscoverHosts returned; an error ends the
\* step, a list is converted record by record
SmartCollect ==
    /\ sPc = "inner"
    /\ pc = "done"
    /\ IF err = "nil"
       THEN StepEnds([i \in DOMAIN activeResults |->
                        SmartDiscoveryResult(activeResults[i], "local", TRUE, CurrentTarget)],
                     "enhanced", arpNetwork)
       ELSE StepEnds(<< >>, "enhanced parse error", BadCIDR)
    /\ DiscoverReset(BadCIDR, "idle")
    /\ UNCHANGED << enablePortScan, arpReply, echoReply, tcpAccept, avars,
                    localNetwork, arpScannerSet, localCIDR, fileTargets, pvars,
                    rvars, cvars, tvars, mvars, uvars, kvars, hvars, fvars, yvars,
                    evars, bvars, gvars, nvars >>

\* line 208: every target was looked at; return allResults, nil
SmartReturn ==
    /\ sPc = "outer"
    /\ sIdx = Len(fileTargets) + 1
    /\ sPc' = "done"
    /\ UNCHANGED << avars, dvars, localNetwork, arpScannerSet, localCIDR,
                    fileTargets, sIdx, allResults, strategies, pvars, rvars, cvars,
                    tvars, mvars, uvars, kvars, hvars, fvars, yvars, evars, bvars,
                    gvars, nvars >>

NextSmart ==
    \/ SmartSkip
    \/ SmartParseFail
    \/ SmartRemoteStart
    \/ SmartRemotePing
    \/ SmartRemoteSweep
    \/ SmartRemote
    \/ SmartEnhancedFail
    \/ SmartEnhancedCall
    \/ SmartCollect
    \/ SmartReturn
    \/ ParseFail
    \/ StartDiscovery
    \/ ARPScan
    \/ ARPSend
    \/ ARPDone
    \/ ICMPScan
    \/ ICMPSend
    \/ ICMPDone
    \/ TCPSend
    \/ TCPDone
    \/ CloseChan
    \/ MergeRecv
    \/ MergeEnd
    \/ Filter
    \/ PortScan
    \/ SortAndReturn

SpecSmart == InitSmart /\ [][NextSmart]_vars

\* C13: no probing method waits for another one: while the ICMP method of
\* a discovery is still running, the TCP method has started (local
\* strategy, DiscoverHosts) or can start (remote strategy, discoverRemote)
C13_MethodsDoNotWait ==
    /\ (sPc = "inner" /\ icmpPc \in {"run", "send"}) => tcpPc # "idle"
    /\ rPc = "ping" => ENABLED SmartRemoteSweep

\* C5: while DiscoverTargets runs, every address ARP resolution is attempted
\* for lies inside the local network
C5_ARPOnlyInsideLocalNetwork ==
    (sPc = "inner" /\ arpPc \in {"send", "done"} /\ arpNetwork.valid) =>
        \A ip \in Range(CIDRToIPRange(arpNetwork)) :
            localNetwork.valid /\ Contains(localNetwork, ip)

(***************************************************************************)
(* SmartDiscovery.discoverRemote on every target: sd.arpScanner is nil     *)
(***************************************************************************)
\* NewSmartDiscovery left sd.arpScanner nil (lines 148-154): the local
\* network is unknown, or NewParallelARPScanner failed.  Any number of the
\* machines answer echo requests and accept connections; when ports are
\* scanned, at most MaxSmartAnswers machines do and the targets come from
\* the file alone.
\* the file targets: those above and a prefix wider than the /29 of the
\* interface that starts inside it
RemoteFileTargets == SmartFileTargets \cup { << CIDRTarget(<<10, 0, 0, 0>>, 28) >> }

InitRemote ==
    /\ localNetwork \in SmartLocalNetworks
    /\ arpScannerSet = FALSE
    /\ localCIDR \in SmartLocalCIDRs
    /\ fileTargets \in RemoteFileTargets
    /\ enablePortScan \in BOOLEAN
    /\ arpReply = {}
    /\ echoReply \in SUBSET SmartHosts
    /\ tcpAccept \in SUBSET SmartHosts
    /\ enablePortScan =>
          /\ Cardinality(echoReply \cup tcpAccept) <= MaxSmartAnswers
          /\ localCIDR.kind = "blank"
    /\ sPc = "outer"
    /\ sIdx = 0
    /\ allResults = << >>
    /\ strategies = << >>
    /\ cidr = BadCIDR
    /\ pc = "idle"
    /\ DiscoverAtRest
    /\ ARPIdle
    /\ PingIdle
    /\ RemoteIdle
    /\ RangeIdle
    /\ ProbeIdle
    /\ MergeIdle
    /\ AssetsIdle
    /\ ProbeCallIdle
    /\ HostScanIdle
    /\ FileScanIdle
    /\ RetryIdle
    /\ EchoIdle
    /\ PublicIdle
    /\ PerformScanIdle
    /\ DaemonIdle

NextRemote ==
    \/ SmartSkip
    \/ SmartParseFail
    \/ SmartRemoteStart
    \/ SmartRemotePing
    \/ SmartRemoteSweep
    \/ SmartRemote
    \/ SmartReturn

SpecRemote == InitRemote /\ [][NextRemote]_vars

\* C27: the list discoverRemote returns for a target is in non-decreasing
\* order of numeric address value
C27_RemoteListSorted ==
    [][(rPc = "merge" /\ rPc' = "idle") =>
          \A i, j \in (Len(allResults) + 1)..Len(allResults') :
              i < j => ipToInt(allResults'[i].IP) <= ipToInt(allResults'[j].IP)]_vars

\* C28: determineStrategy answers local only for a target whose every
\* address lies inside the network of the interface, and answers remote
\* whenever that network is unknown or the target cannot be parsed
C28_LocalOnlyWhenWhollyInside ==
    (AtTarget /\ sIdx >= 1) =>
        LET t == fileTargets[sIdx]
            p == parseTarget(t)
        IN  /\ determineStrategy(t) = "local" =>
                  /\ localNetwork.valid
                  /\ p.ok
                  /\ \A ip \in Range(p.ips) : Contains(localNetwork, ip)
            /\ (~localNetwork.valid \/ ~p.ok) => determineStrategy(t) = "remote"

\* C29: with sd.arpScanner nil, a target scanned with the local strategy is
\* discovered by ICMP and TCP alone: no ARP scan is started, the step ends
\* without an error, every machine of the target that accepts a connection
\* has a record, and the records say Strategy = remote, IsLocal = false
C29_NilScannerFallsBack ==
    ~arpScannerSet =>
        /\ arpPc = "idle"
        /\ aPc = "idle"
        /\ \A k \in DOMAIN strategies :
              strategies[k].strategy = "local" =>
                  /\ strategies[k].outcome = "remote"
                  /\ \A ip \in tcpAccept \cap Range(parseTarget(strategies[k].target).ips) :
                        \E i \in DOMAIN allResults :
                            /\ allResults[i].IP = ip
                            /\ allResults[i].NetworkSegment = strategies[k].target
        /\ \A i \in DOMAIN allResults :
              /\ allResults[i].Strategy = "remote"
              /\ ~allResults[i].IsLocal
              /\ ~allResults[i].FoundByARP
              /\ allResults[i].FoundByICMP \/ allResults[i].FoundByTCP

\* the ARP scanner could not be created on a known local network, and a
\* target scanned with the local strategy returned a live machine
C29_Witness ==
    /\ sPc = "done"
    /\ ~arpScannerSet
    /\ localNetwork.valid
    /\ \E k \in DOMAIN strategies :
          /\ strategies[k].strategy = "local"
          /\ \E i \in DOMAIN allResults :
                allResults[i].NetworkSegment = strategies[k].target

\* C26: the list DiscoverTargets returns holds no two records with the same
\* IP address, whatever ranges the local CIDR and the file targets cover
C26_NoDuplicateAcrossTargets ==
    sPc = "done" =>
        \A i, j \in DOMAIN allResults :
            i # j => allResults[i].IP # allResults[j].IP


(***************************************************************************)
(* Properties of DiscoverHosts                                             *)
(***************************************************************************)
Returned == pc = "done" /\ err = "nil"

\* the records of the returned list whose IP is ip
RecordsFor(ip) == {i \in DOMAIN activeResults : activeResults[i].IP = ip}

ProducersDone == arpPc = "done" /\ icmpPc = "done" /\ tcpPc = "done"

\* C1: the returned list holds no two records with the same IP address
C1_NoDuplicateIP ==
    Returned =>
        \A i, j \in DOMAIN activeResults :
            i # j => activeResults[i].IP # activeResults[j].IP

\* C2: an address for which both an ARP and an ICMP finding were sent has
\* exactly one returned record, found by ARP and by ICMP, with its MAC
C2_ARPAndICMPMerged ==
    Returned =>
        \A ip \in Hosts :
            (/\ \E f \in sent : f.IP = ip /\ f.FoundByARP
             /\ \E f \in sent : f.IP = ip /\ f.FoundByICMP)
            => /\ Cardinality(RecordsFor(ip)) = 1
               /\ \A i \in RecordsFor(ip) :
                    /\ activeResults[i].FoundByARP
                    /\ activeResults[i].FoundByICMP
                    /\ activeResults[i].MAC = HardwareAddr(ip)

\* C3: the returned addresses are exactly the addresses some finding was
\* produced for, and every returned record has a discovery flag set
C3_RecordIffFinding ==
    Returned =>
        /\ {activeResults[i].IP : i \in DOMAIN activeResults} = {f.IP : f \in sent}
        /\ \A i \in DOMAIN activeResults : IsActive(activeResults[i])

C7_TCPOnlyHost ==
    Returned =>
        \A ip \in Hosts :
            (ip \in Range(ips) /\ ip \notin arpReply /\ ip \notin echoReply
                /\ ip \in tcpAccept)
            => /\ Cardinality(RecordsFor(ip)) = 1
               /\ \A i \in RecordsFor(ip) :
                    /\ activeResults[i].FoundByTCP
                    /\ ~activeResults[i].FoundByARP
                    /\ ~activeResults[i].FoundByICMP
                    /\ activeResults[i].MAC = ""
                    /\ activeResults[i].Vendor = ""

\* C8: the addresses the ARP scan resolves are the addresses of the prefix
C8_ARPTargetsAreRange ==
    arpPc \in {"send", "done"} =>
        /\ arpNetwork.valid
        /\ Range(CIDRToIPRange(arpNetwork)) = Range(ips)

\* C9: an error is returned exactly for an unparsable prefix, then with no
\* record and no probe started; a scan nobody answers returns an empty list
\* and a nil error
C9_ErrorIffParseFailure ==
    pc = "done" =>
        /\ err \in {"nil", "parse"}
        /\ (err = "parse") <=> ~cidr.valid
        /\ err = "parse" =>
              /\ activeResults = << >>
              /\ arpPc = "idle" /\ icmpPc = "idle" /\ tcpPc = "idle"
              /\ sent = {}
        /\ (cidr.valid /\ sent = {}) => (err = "nil" /\ activeResults = << >>)

\* C9 witness: a call with an unparsable prefix has returned
C9_Witness == pc = "done" /\ ~cidr.valid /\ err = "parse"

\* C10: when the ARP method failed, the call still returns a nil error and
\* a record for every address found by ICMP or TCP
C10_ARPFailureAbsorbed ==
    (pc = "done" /\ cidr.valid /\ arpFailure # "none") =>
        /\ err = "nil"
        /\ \A f \in sent :
              (f.FoundByICMP \/ f.FoundByTCP) => RecordsFor(f.IP) # {}

(***************************************************************************)
(* ICMPScanner.PingHosts                                                   *)
(***************************************************************************)
\* NewICMPScanner stores any worker count, from -1 up to MaxPingWorkers here
MaxPingWorkers == 3

\* the address lists PingHosts is called with (one holds an address twice)
PingInputs ==
    { << >>,
      << <<10, 0, 0, 1>> >>,
      << <<10, 0, 0, 1>>, <<10, 0, 0, 2>> >>,
      << <<10, 0, 0, 2>>, <<10, 0, 0, 2>> >> }

\* what PingHost(ip) did: raw tells whether icmp.ListenPacket opened the
\* socket; `s.pingICMP(ip) || s.pingTCP(ip)` runs pingTCP when pingICMP
\* returned false
PingHostProbe(ip, raw) ==
    [IP |-> ip, raw |-> raw, echoed |-> ip \in echoReply,
     tcp |-> ~pingICMP(ip, raw), Success |-> PingHost(ip, raw)]

\* PingResult of PingHost: Success and, on success, the measured RTT
PingResult(ip, raw, rtt) ==
    [IP |-> ip, Success |-> PingHost(ip, raw),
     RTT |-> IF PingHost(ip, raw) THEN rtt ELSE 0]

\* lines 144-149: workers is s.workers capped at len(ips); the loop
\* for i := 0; i < workers; i++ starts that many goroutines, none if <= 0
StartedPingWorkers ==
    LET workers == IF pWorkers > Len(pIps) THEN Len(pIps) ELSE pWorkers
    IN  IF workers > 0 THEN workers ELSE 0

InitPing ==
    /\ cidr = BadCIDR
    /\ enablePortScan = FALSE
    /\ pc = "idle"
    /\ DiscoverAtRest
    /\ ARPIdle
    /\ SmartIdle
    /\ arpReply = {}
    /\ echoReply \in SUBSET Hosts
    /\ tcpAccept \in SUBSET Hosts
    /\ pWorkers \in -1..MaxPingWorkers
    /\ pIps \in PingInputs
    /\ pPc = "call"
    /\ pIpChan = << >>
    /\ pResultChan = << >>
    /\ pResultClosed = FALSE
    /\ pWg = 0
    /\ pwPc = << >>
    /\ pwCur = << >>
    /\ pCloserPc = "idle"
    /\ pResults = << >>
    /\ pProbes = {}
    /\ RemoteIdle
    /\ RangeIdle
    /\ ProbeIdle
    /\ MergeIdle
    /\ AssetsIdle
    /\ ProbeCallIdle
    /\ HostScanIdle
    /\ FileScanIdle
    /\ RetryIdle
    /\ EchoIdle
    /\ PublicIdle
    /\ PerformScanIdle
    /\ DaemonIdle

\* lines 128-130: no address; return an empty list
PingEmpty ==
    /\ pPc = "call"
    /\ Len(pIps) = 0
    /\ pPc' = "done"
    /\ UNCHANGED << avars, dvars, svars, pWorkers, pIps, pIpChan, pResultChan,
                    pResultClosed, pWg, pwPc, pwCur, pCloserPc, pResults, pProbes,
                    rvars, cvars, tvars, mvars, uvars, kvars, hvars, fvars, yvars,
                    evars, bvars, gvars, nvars >>

\* lines 133-164: fill and close ipChan, start the workers and the closer
PingStart ==
    /\ pPc = "call"
    /\ Len(pIps) > 0
    /\ pIpChan' = pIps
    /\ pwPc' = [w \in 1..StartedPingWorkers |-> "recv"]
    /\ pwCur' = [w \in 1..StartedPingWorkers |-> << >>]
    /\ pWg' = StartedPingWorkers
    /\ pCloserPc' = "wait"
    /\ pPc' = "collect"
    /\ UNCHANGED << avars, dvars, svars, pWorkers, pIps, pResultChan, pResultClosed,
                    pResults, pProbes, rvars, cvars, tvars, mvars, uvars, kvars,
                    hvars, fvars, yvars, evars, bvars, gvars, nvars >>

\* line 153: a worker takes the next address from ipChan
PingWorkerRecv(w) ==
    /\ pwPc[w] = "recv"
    /\ pIpChan # << >>
    /\ pwCur' = [pwCur EXCEPT ![w] = Head(pIpChan)]
    /\ pIpChan' = Tail(pIpChan)
    /\ pwPc' = [pwPc EXCEPT ![w] = "ping"]
    /\ UNCHANGED << avars, dvars, svars, pWorkers, pIps, pPc, pResultChan,
                    pResultClosed, pWg, pCloserPc, pResults, pProbes, rvars, cvars,
                    tvars, mvars, uvars, kvars, hvars, fvars, yvars, evars, bvars,
                    gvars, nvars >>

\* lines 154-155: PingHost(ip), then send the result (the buffer holds
\* len(ips) results)
PingWorkerPing(w) ==
    /\ pwPc[w] = "ping"
    /\ Len(pResultChan) < Len(pIps)
    /\ \E raw \in BOOLEAN, rtt \in RoundTripTimes :
          /\ pResultChan' = Append(pResultChan, PingResult(pwCur[w], raw, rtt))
          /\ pProbes' = pProbes \cup {PingHostProbe(pwCur[w], raw)}
    /\ pwPc' = [pwPc EXCEPT ![w] = "recv"]
    /\ UNCHANGED << avars, dvars, svars, pWorkers, pIps, pPc, pIpChan,
                    pResultClosed, pWg, pwCur, pCloserPc, pResults, rvars, cvars,
                    tvars, mvars, uvars, kvars, hvars, fvars, yvars, evars, bvars,
                    gvars, nvars >>

\* lines 152-153: ipChan is closed and empty; the worker ends, wg.Done()
PingWorkerExit(w) ==
    /\ pwPc[w] = "recv"
    /\ pIpChan = << >>
    /\ pwPc' = [pwPc EXCEPT ![w] = "done"]
    /\ pWg' = pWg - 1
    /\ UNCHANGED << avars, dvars, svars, pWorkers, pIps, pPc, pIpChan, pResultChan,
                    pResultClosed, pwCur, pCloserPc, pResults, pProbes, rvars,
                    cvars, tvars, mvars, uvars, kvars, hvars, fvars, yvars, evars,
                    bvars, gvars, nvars >>

\* lines 161-164: wg.Wait() returned; close(resultChan)
PingClose ==
    /\ pCloserPc = "wait"
    /\ pWg = 0
    /\ pResultClosed' = TRUE
    /\ pCloserPc' = "done"
    /\ UNCHANGED << avars, dvars, svars, pWorkers, pIps, pPc, pIpChan, pResultChan,
                    pWg, pwPc, pwCur, pResults, pProbes, rvars, cvars, tvars, mvars,
                    uvars, kvars, hvars, fvars, yvars, evars, bvars, gvars, nvars >>

\* lines 168-170: the caller appends the next result
PingCollectRecv ==
    /\ pPc = "collect"
    /\ pResultChan # << >>
    /\ pResults' = Append(pResults, Head(pResultChan))
    /\ pResultChan' = Tail(pResultChan)
    /\ UNCHANGED << avars, dvars, svars, pWorkers, pIps, pPc, pIpChan,
                    pResultClosed, pWg, pwPc, pwCur, pCloserPc, pProbes, rvars,
                    cvars, tvars, mvars, uvars, kvars, hvars, fvars, yvars, evars,
                    bvars, gvars, nvars >>

\* lines 168, 172: resultChan is closed and empty; return results
PingCollectEnd ==
    /\ pPc = "collect"
    /\ pResultChan = << >>
    /\ pResultClosed
    /\ pPc' = "done"
    /\ UNCHANGED << avars, dvars, svars, pWorkers, pIps, pIpChan, pResultChan,
                    pResultClosed, pWg, pwPc, pwCur, pCloserPc, pResults, pProbes,
                    rvars, cvars, tvars, mvars, uvars, kvars, hvars, fvars, yvars,
                    evars, bvars, gvars, nvars >>

NextPing ==
    \/ PingEmpty
    \/ PingStart
    \/ \E w \in DOMAIN pwPc : PingWorkerRecv(w)
    \/ \E w \in DOMAIN pwPc : PingWorkerPing(w)
    \/ \E w \in DOMAIN pwPc : PingWorkerExit(w)
    \/ PingClose
    \/ PingCollectRecv
    \/ PingCollectEnd

SpecPing == InitPing /\ [][NextPing]_vars

\* how many entries of the list s carry the address ip
CountIP(s, ip) == Cardinality({i \in DOMAIN s : s[i] = ip})

\* C11: when PingHosts returns, every worker has finished and the results
\* carry each input address exactly as often as the input does
C11_OneResultPerAddress ==
    pPc = "done" =>
        /\ \A w \in DOMAIN pwPc : pwPc[w] = "done"
        /\ \A ip \in Range(pIps) \cup {pResults[i].IP : i \in DOMAIN pResults} :
              CountIP([i \in DOMAIN pResults |-> pResults[i].IP], ip) = CountIP(pIps, ip)

\* C16: PingHost runs the TCP fallback exactly when the raw socket could not
\* be opened; with the socket open and no echo reply no connection is tried
\* and the address is reported as not found.
C16_FallbackOnlyWithoutSocket ==
    \A p \in pProbes :
        /\ p.tcp <=> ~p.raw
        /\ (p.raw /\ ~p.echoed) => (~p.tcp /\ ~p.Success)

(***************************************************************************)
(* Termination of DiscoverHosts                                            *)
(***************************************************************************)
\* The Go scheduler runs every goroutine that can take a step, and every
\* network operation returns within its timeout: each of the five goroutines
\* of DiscoverHosts takes its next step when that step stays possible.
CallerStep ==
    ParseFail \/ StartDiscovery \/ MergeRecv \/ MergeEnd \/ Filter \/ PortScan \/ SortAndReturn

ARPProducerStep == ARPScan \/ ARPSend \/ ARPDone

ICMPProducerStep == ICMPScan \/ ICMPSend \/ ICMPDone

TCPProducerStep == TCPSend \/ TCPDone

FairDiscover ==
    /\ WF_vars(CallerStep)
    /\ WF_vars(ARPProducerStep)
    /\ WF_vars(ICMPProducerStep)
    /\ WF_vars(TCPProducerStep)
    /\ WF_vars(CloseChan)

\* at most MaxLiveAnswers (address, method) pairs answer in a call followed
\* to its return; a one-address prefix has a channel of three slots, which
\* four findings fill
MaxLiveAnswers == 4

InitLive ==
    /\ cidr \in { [valid |-> TRUE, ip |-> <<10, 0, 0, 2>>, bits |-> 32], BadCIDR }
    /\ enablePortScan \in BOOLEAN
    /\ arpReply \in SUBSET Hosts
    /\ echoReply \in SUBSET Hosts
    /\ tcpAccept \in SUBSET Hosts
    /\ Cardinality(arpReply) + Cardinality(echoReply) + Cardinality(tcpAccept)
          <= MaxLiveAnswers
    /\ pc = "call"
    /\ DiscoverAtRest
    /\ ARPIdle
    /\ SmartIdle
    /\ PingIdle
    /\ RemoteIdle
    /\ RangeIdle
    /\ ProbeIdle
    /\ MergeIdle
    /\ AssetsIdle
    /\ ProbeCallIdle
    /\ HostScanIdle
    /\ FileScanIdle
    /\ RetryIdle
    /\ EchoIdle
    /\ PublicIdle
    /\ PerformScanIdle
    /\ DaemonIdle

SpecLive == InitLive /\ [][Next]_vars /\ FairDiscover

FairARP ==
    /\ WF_vars(ARPParseFail \/ ARPStart \/ DispatchSend \/ DispatchError \/ DispatchEnd
                   \/ WaitWorkers \/ ReturnResults)
    /\ WF_vars(CollectorRecv \/ CollectorEnd)
    /\ \A w \in 1..(MaxWorkers + 1) :
          WF_vars(w \in DOMAIN wPc /\
                    (WorkerRecv(w) \/ WorkerExit(w) \/ WorkerOpen(w) \/ WorkerOpenFail(w)
                        \/ WorkerScan(w) \/ WorkerClose(w)))

SpecARPLive == InitARP /\ [][NextARP]_vars /\ FairARP

ScanNetworkParallelReturns == <>(aRet.returned)

\* every goroutine ScanNetworkParallel started has ended and no worker holds
\* an open socket
GoroutinesEnded ==
    /\ \A w \in DOMAIN wPc : wPc[w] = "exit" /\ ~wSock[w]
    /\ collectorPc \in {"idle", "exit"}

\* C33: whenever ScanNetworkParallel returns, normally or early with a
\* worker error, all its workers and its result collector eventually end
\* and every socket a worker opened is closed
C33_GoroutinesTerminate == aRet.returned ~> GoroutinesEnded

FairPing ==
    /\ WF_vars(PingEmpty \/ PingStart \/ PingCollectRecv \/ PingCollectEnd)
    /\ WF_vars(PingClose)
    /\ \A w \in 1..(MaxPingWorkers + 1) :
          WF_vars(w \in DOMAIN pwPc /\
                    (PingWorkerRecv(w) \/ PingWorkerPing(w) \/ PingWorkerExit(w)))

SpecPingLive == InitPing /\ [][NextPing]_vars /\ FairPing

PingHostsReturns == <>(pPc = "done")

(***************************************************************************)
(* The final sort of DiscoverHosts (lines 138-143) on any slice            *)
(***************************************************************************)
\* the slices handed to the sort hold up to MaxSortLen records
MaxSortLen == 3

\* addresses whose order as strings differs from their order as numbers:
\* "10.0.0.10" < "10.0.0.2" < "10.0.1.1" < "9.255.255.100" as strings
SortAddresses == { <<10, 0, 0, 2>>, <<10, 0, 0, 10>>, <<10, 0, 1, 1>>, <<9, 255, 255, 100>> }

\* the slices of at most n records over SortAddresses
SortInputs(n) ==
    UNION { [1..k -> {TCPFinding(ip) : ip \in SortAddresses}] : k \in 0..n }

InitSort ==
    /\ cidr = [valid |-> TRUE, ip |-> <<0, 0, 0, 0>>, bits |-> 2]
    /\ enablePortScan = FALSE
    /\ arpReply = {}
    /\ echoReply = {}
    /\ tcpAccept = {}
    /\ pc = "sort"
    /\ ips = << >>
    /\ resultChan = << >>
    /\ chanClosed = TRUE
    /\ closerPc = "done"
    /\ wg = 0
    /\ arpPc = "done"
    /\ arpNetwork = BadCIDR
    /\ arpPending = {}
    /\ arpFailure = "none"
    /\ icmpPc = "done"
    /\ icmpPending = {}
    /\ tcpPc = "done"
    /\ tcpIdx = 0
    /\ cells = << >>
    /\ resultsMap = << >>
    /\ iter = 0
    /\ activeResults \in SortInputs(MaxSortLen)
    /\ err = "none"
    /\ sent = {}
    /\ sendOnClosed = FALSE
    /\ scannedPorts = {}
    /\ ARPIdle
    /\ SmartIdle
    /\ PingIdle
    /\ RemoteIdle
    /\ RangeIdle
    /\ ProbeIdle
    /\ MergeIdle
    /\ AssetsIdle
    /\ ProbeCallIdle
    /\ HostScanIdle
    /\ FileScanIdle
    /\ RetryIdle
    /\ EchoIdle
    /\ PublicIdle
    /\ PerformScanIdle
    /\ DaemonIdle

NextSort == SortAndReturn

SpecSort == InitSort /\ [][NextSort]_vars

\* a <= b for addresses as 32-bit numbers: most significant octet first
NumericLE(a, b) ==
    \/ a[1] < b[1]
    \/ a[1] = b[1] /\ a[2] < b[2]
    \/ a[1] = b[1] /\ a[2] = b[2] /\ a[3] < b[3]
    \/ a[1] = b[1] /\ a[2] = b[2] /\ a[3] = b[3] /\ a[4] <= b[4]

\* C14: the returned list is in non-decreasing order of the numeric value of
\* the addresses
C14_SortedByNumericValue ==
    pc = "done" =>
        \A i, j \in DOMAIN activeResults :
            i < j => NumericLE(activeResults[i].IP, activeResults[j].IP)

C14_Witness ==
    /\ pc = "done"
    /\ Len(activeResults) = 3
    /\ activeResults[1].IP = <<9, 255, 255, 100>>
    /\ activeResults[2].IP = <<10, 0, 0, 2>>
    /\ activeResults[3].IP = <<10, 0, 0, 10>>

(***************************************************************************)
(* CIDRToIPRange, one loop iteration at a time                             *)
(***************************************************************************)
\* the most iterations of the loop that are followed
MaxRangeLen == 256

\* the prefix strings CIDRToIPRange is called with: net.ParseCIDR accepts
\* every address with a length of 0..32 and keeps the host bits until Mask
RangeBases ==
    { <<0, 0, 0, 0>>, <<10, 0, 0, 5>>, <<10, 0, 255, 250>>, <<255, 255, 255, 253>> }

RangeBits == {0, 24, 29, 30, 31, 32}

RangeInputs ==
    { [valid |-> TRUE, ip |-> b, bits |-> n] : b \in RangeBases, n \in RangeBits }
        \cup {BadCIDR}

InitRange ==
    /\ cidr \in RangeInputs
    /\ enablePortScan = FALSE
    /\ pc = "idle"
    /\ arpReply = {}
    /\ echoReply = {}
    /\ tcpAccept = {}
    /\ DiscoverAtRest
    /\ ARPIdle
    /\ SmartIdle
    /\ PingIdle
    /\ RemoteIdle
    /\ RangeIdle
    /\ ProbeIdle
    /\ MergeIdle
    /\ AssetsIdle
    /\ ProbeCallIdle
    /\ HostScanIdle
    /\ FileScanIdle
    /\ RetryIdle
    /\ EchoIdle
    /\ PublicIdle
    /\ PerformScanIdle
    /\ DaemonIdle

\* net.ParseCIDR fails: return nil, err
RangeParseFail ==
    /\ cPc = "idle"
    /\ ~cidr.valid
    /\ cPc' = "error"
    /\ UNCHANGED << avars, dvars, svars, pvars, rvars, cNet, cIP, cIps, cRet, tvars,
                    mvars, uvars, kvars, hvars, fvars, yvars, evars, bvars, gvars,
                    nvars >>

\* net.ParseCIDR succeeds; ip := ipnet.IP.Mask(ipnet.Mask)
RangeParse ==
    /\ cPc = "idle"
    /\ cidr.valid
    /\ cNet' = cidr
    /\ cIP' = MaskIP(cidr.ip, cidr.bits)
    /\ cIps' = << >>
    /\ cPc' = "loop"
    /\ UNCHANGED << avars, dvars, svars, pvars, rvars, cRet, tvars, mvars, uvars,
                    kvars, hvars, fvars, yvars, evars, bvars, gvars, nvars >>

\* one iteration: ipnet.Contains(ip) holds, append a copy, incrementIP(ip)
RangeAppend ==
    /\ cPc = "loop"
    /\ Contains(cNet, cIP)
    /\ Len(cIps) < MaxRangeLen
    /\ cIps' = Append(cIps, cIP)
    /\ cIP' = incrementIP(cIP, 1)
    /\ UNCHANGED << avars, dvars, svars, pvars, rvars, cNet, cRet, cPc, tvars,
                    mvars, uvars, kvars, hvars, fvars, yvars, evars, bvars, gvars,
                    nvars >>

\* ipnet.Contains(ip) fails: the loop ends; more than two addresses lose the
\* first and the last
RangeReturn ==
    /\ cPc = "loop"
    /\ ~Contains(cNet, cIP)
    /\ cRet' = IF Len(cIps) > 2 THEN SubSeq(cIps, 2, Len(cIps) - 1) ELSE cIps
    /\ cPc' = "done"
    /\ UNCHANGED << avars, dvars, svars, pvars, rvars, cNet, cIP, cIps, tvars,
                    mvars, uvars, kvars, hvars, fvars, yvars, evars, bvars, gvars,
                    nvars >>

NextRange == RangeParseFail \/ RangeParse \/ RangeAppend \/ RangeReturn

SpecRange == InitRange /\ [][NextRange]_vars

\* one byte of an address ORed with the complement of the mask byte that has
\* n leading ones
LastOctet(o, n) ==
    IF n >= 8 THEN o ELSE IF n <= 0 THEN 255 ELSE MaskOctet(o, n) + (2 ^ (8 - n)) - 1

\* the highest address ipnet.Contains accepts: all host bits set
LastIP(ipnet) ==
    << LastOctet(ipnet.ip[1], ipnet.bits), LastOctet(ipnet.ip[2], ipnet.bits - 8),
       LastOctet(ipnet.ip[3], ipnet.bits - 16), LastOctet(ipnet.ip[4], ipnet.bits - 24) >>

\* the loop leaves the prefix: the address incrementIP makes of the highest
\* address of the prefix is one ipnet.Contains rejects
LoopLeavesPrefix(ipnet) == ~Contains(ipnet, incrementIP(LastIP(ipnet), 1))

\* the slice the loop returns is the one CIDRRangeLen and CIDRRangeAt describe
RangeLoopIsCIDRToIPRange == cPc = "done" => cRet = CIDRToIPRange(cNet)

\* C15: for every valid prefix CIDRToIPRange returns: the loop over the prefix
\* comes to an address outside it; and the slice returned is strictly
\* ascending by numeric value (so without duplicates), holds only addresses of
\* the prefix, and for a prefix of 3 or more addresses (length <= 30) has
\* size - 2 entries, neither the network nor the broadcast address among
\* them, for a /31 both addresses and for a /32 the one address.
C15_RangeOfPrefix ==
    /\ cPc = "loop" => LoopLeavesPrefix(cNet)
    /\ cPc = "done" =>
        /\ \A i \in 1..(Len(cRet) - 1) :
               NumericLE(cRet[i], cRet[i + 1]) /\ cRet[i] # cRet[i + 1]
        /\ \A i \in DOMAIN cRet : Contains(cNet, cRet[i])
        /\ cNet.bits <= 30 =>
               /\ Len(cRet) = 2 ^ (32 - cNet.bits) - 2
               /\ \A i \in DOMAIN cRet :
                      cRet[i] # MaskIP(cNet.ip, cNet.bits) /\ cRet[i] # LastIP(cNet)
        /\ cNet.bits = 31 => Len(cRet) = 2
        /\ cNet.bits = 32 => Len(cRet) = 1

\* C36: CIDRToIPRange terminates for every valid prefix: its loop comes to
\* an address outside the prefix, also when the prefix ends at
\* 255.255.255.255 and incrementIP wraps around to 0.0.0.0
C36_RangeLoopTerminates ==
    cPc = "loop" =>
        /\ LoopLeavesPrefix(cNet)
        /\ LastIP(cNet) = <<255, 255, 255, 255>> =>
              /\ incrementIP(LastIP(cNet), 1) = <<0, 0, 0, 0>>
              /\ ~Contains(cNet, <<0, 0, 0, 0>>)

(***************************************************************************)
(* The TCP connection prober: performTCPDiscovery and performTCPSweep      *)
(***************************************************************************)
\* a port list that dials the web ports before the rest
tcpPortsWebFirst == << 80, 443, 22, 23, 25, 53, 135, 139, 445, 993, 995, 3389, 5900 >>

\* tcpPorts, the same literal in both functions
tcpPorts == << 22, 23, 25, 53, 80, 135, 139, 443, 445, 993, 995, 3389, 5900 >>

\* the ports a host may accept connections on: the first, a middle and the
\* last of the list, and one that is not in it
ProbeOpenChoices == {22, 80, 5900, 8080}

\* how net.DialTimeout fails
DialErrors == {"connection refused", "i/o timeout"}

\* the address lists the prober is called with
ProbeInputs ==
    { << >>, << <<10, 0, 0, 1>> >>, << <<10, 0, 0, 1>>, <<10, 0, 0, 2>> >>,
      << <<10, 0, 0, 2>>, <<10, 0, 0, 2>> >> }

InitProbe ==
    /\ cidr = BadCIDR
    /\ enablePortScan = FALSE
    /\ pc = "idle"
    /\ arpReply = {}
    /\ echoReply = {}
    /\ tcpAccept = {}
    /\ DiscoverAtRest
    /\ ARPIdle
    /\ SmartIdle
    /\ PingIdle
    /\ RemoteIdle
    /\ RangeIdle
    /\ tFunc \in {"performTCPDiscovery", "performTCPSweep"}
    /\ tIps \in ProbeInputs
    /\ tOpen \in [Hosts -> SUBSET ProbeOpenChoices]
    /\ tI = 0
    /\ tP = 1
    /\ tDialed = [i \in DOMAIN tIps |-> << >>]
    /\ tErr = ""
    /\ tOut = << >>
    /\ tPc = "next"
    /\ MergeIdle
    /\ AssetsIdle
    /\ ProbeCallIdle
    /\ HostScanIdle
    /\ FileScanIdle
    /\ RetryIdle
    /\ EchoIdle
    /\ PublicIdle
    /\ PerformScanIdle
    /\ DaemonIdle

\* what the function reports for an address that accepted: performTCPDiscovery
\* sends a result with FoundByTCP, performTCPSweep appends the address
ProbeReport(ip) ==
    IF tFunc = "performTCPDiscovery" THEN TCPFinding(ip) ELSE ip

\* the address a report is about
ReportedIP(r) == IF tFunc = "performTCPDiscovery" THEN r.IP ELSE r

\* `for _, ip := range ips`: the next address, its port loop from the start
ProbeNextIP ==
    /\ tPc = "next"
    /\ tI < Len(tIps)
    /\ tI' = tI + 1
    /\ tP' = 1
    /\ tPc' = "dial"
    /\ UNCHANGED << avars, dvars, svars, pvars, rvars, cvars, tFunc, tIps, tOpen,
                    tDialed, tErr, tOut, mvars, uvars, kvars, hvars, fvars, yvars,
                    evars, bvars, gvars, nvars >>

\* net.DialTimeout succeeds: conn.Close(), the address is reported, break
ProbeDialAccept ==
    /\ tPc = "dial"
    /\ tcpPorts[tP] \in tOpen[tIps[tI]]
    /\ tDialed' = [tDialed EXCEPT ![tI] = Append(@, tcpPorts[tP])]
    /\ tErr' = ""
    /\ tOut' = Append(tOut, ProbeReport(tIps[tI]))
    /\ tPc' = "next"
    /\ UNCHANGED << avars, dvars, svars, pvars, rvars, cvars, tFunc, tIps, tOpen,
                    tI, tP, mvars, uvars, kvars, hvars, fvars, yvars, evars, bvars,
                    gvars, nvars >>

\* net.DialTimeout fails: err is dropped; the next port, or after the last
\* port the next address with nothing reported
ProbeDialFail ==
    /\ tPc = "dial"
    /\ tcpPorts[tP] \notin tOpen[tIps[tI]]
    /\ tDialed' = [tDialed EXCEPT ![tI] = Append(@, tcpPorts[tP])]
    /\ tErr' \in DialErrors
    /\ IF tP < Len(tcpPorts)
       THEN tP' = tP + 1 /\ tPc' = "dial"
       ELSE tP' = tP /\ tPc' = "next"
    /\ UNCHANGED << avars, dvars, svars, pvars, rvars, cvars, tFunc, tIps, tOpen,
                    tI, tOut, mvars, uvars, kvars, hvars, fvars, yvars, evars,
                    bvars, gvars, nvars >>

\* the range over ips is finished: the function returns
ProbeReturn ==
    /\ tPc = "next"
    /\ tI = Len(tIps)
    /\ tPc' = "done"
    /\ UNCHANGED << avars, dvars, svars, pvars, rvars, cvars, tFunc, tIps, tOpen,
                    tI, tP, tDialed, tErr, tOut, mvars, uvars, kvars, hvars, fvars,
                    yvars, evars, bvars, gvars, nvars >>

NextProbe == ProbeNextIP \/ ProbeDialAccept \/ ProbeDialFail \/ ProbeReturn

SpecProbe == InitProbe /\ [][NextProbe]_vars

\* the addresses whose port loop has ended
ProbedIndexes == {i \in DOMAIN tIps : i < tI \/ (i = tI /\ tPc \in {"next", "done"})}

\* C17: the ports are dialed in the order 22, 23, 25, 53, 80, 135, 139, 443,
\* 445, 993, 995, 3389, 5900; no port is dialed after one that accepted; an
\* address whose loop has ended is reported exactly when the last port dialed
\* accepted, and otherwise all 13 ports were dialed and failed; and a failed
\* dial ends nothing: when the function has returned every address was
\* probed, and there are as many reports as addresses that accepted.
C17_PortsInOrderFirstSuccessStops ==
    /\ \A i \in DOMAIN tDialed : \A k \in DOMAIN tDialed[i] :
           /\ tDialed[i][k] =
                  << 22, 23, 25, 53, 80, 135, 139, 443, 445, 993, 995, 3389, 5900 >>[k]
           /\ k < Len(tDialed[i]) => tDialed[i][k] \notin tOpen[tIps[i]]
    /\ \A i \in ProbedIndexes :
           LET d == tDialed[i]
               accepted == Len(d) > 0 /\ d[Len(d)] \in tOpen[tIps[i]]
           IN  /\ Len(d) > 0
               /\ ~accepted => Len(d) = 13
               /\ accepted <=> \E k \in DOMAIN tOut : ReportedIP(tOut[k]) = tIps[i]
    /\ tPc = "done" =>
           /\ ProbedIndexes = DOMAIN tIps
           /\ Len(tOut) = Cardinality({i \in DOMAIN tIps :
                                          tOpen[tIps[i]] \cap Range(tcpPorts) # {}})

\* the function has returned after one address was found at its fifth port
\* and another was given up after all 13 had failed, the last by a timeout
C17_Witness ==
    /\ tPc = "done"
    /\ Len(tIps) = 2
    /\ tDialed[1] = << 22, 23, 25, 53, 80 >>
    /\ Len(tDialed[2]) = 13
    /\ tErr = "i/o timeout"
    /\ Len(tOut) = 1

(***************************************************************************)
(* mergeResults on one record                                              *)
(***************************************************************************)
\* the most calls of mergeResults on the record that are followed
MaxMerges == 2

\* the values a DiscoveryResult for one address can hold
MergeRecords ==
    { [ IP |-> <<10, 0, 0, 1>>, FoundByARP |-> a, FoundByICMP |-> i, FoundByTCP |-> t,
        MAC |-> m, Vendor |-> v, Hostname |-> "", OpenPorts |-> o, ResponseTime |-> r ] :
      a \in BOOLEAN, i \in BOOLEAN, t \in BOOLEAN,
      m \in {"", "02:00:00:00:00:1", "02:00:00:00:00:9"}, v \in {"", "Acme"},
      o \in {<< >>, << PortResult(<<10, 0, 0, 1>>, 22, "tcp", "open", "") >>},
      r \in {0, 7, 9} }

\* the findings that reach mergeResults: the producers leave OpenPorts nil
MergeFindings == {f \in MergeRecords : f.OpenPorts = << >>}

\* a PortScanResult: the port, its protocol and its state (IP, Service and
\* Banner go with them)
PortEntryOf(port, protocol, state) ==
    [Port |-> port, Protocol |-> protocol, State |-> state]

\* a PortScanResult of the TCP scan
PortEntry(port, state) == PortEntryOf(port, "tcp", state)

\* the OpenPorts slices an Asset can hold
AssetPortLists ==
    { << >>,
      << PortEntry(22, "open") >>,
      << PortEntry(80, "filtered"), PortEntry(22, "open") >>,
      << PortEntry(22, "open"), PortEntry(22, "filtered") >>,
      << PortEntryOf(53, "tcp", "open"), PortEntryOf(53, "udp", "open") >> }

\* the values an Asset for one address can hold (LastSeen as a clock reading)
AssetValues ==
    { [ IP |-> <<10, 0, 0, 1>>, MAC |-> m, Vendor |-> v, Hostname |-> h,
        OpenPorts |-> o, LastSeen |-> l, ARPResponse |-> a ] :
      m \in {"", "02:00:00:00:00:1"}, v \in {"", "Acme"}, h \in {"", "host.lan"},
      o \in AssetPortLists, l \in {1, 2}, a \in BOOLEAN }

\* a merge of port lists that appends the new entries to the existing ones
mergePortResultsAppends(existing, new) == {existing \o new}

\* mergePortResults(existing, new): portMap holds for each port the last entry
\* of existing, replaced by the last entry of new; merged lists the values of
\* portMap in the order the map iteration yields them, which is any order
mergePortResults(existing, new) ==
    LET ports == {e.Port : e \in Range(existing) \cup Range(new)}
        last(list, p) ==
            list[CHOOSE i \in DOMAIN list :
                    /\ list[i].Port = p
                    /\ \A k \in DOMAIN list : list[k].Port = p => k <= i]
        portMap == [p \in ports |->
                       IF \E e \in Range(new) : e.Port = p
                       THEN last(new, p) ELSE last(existing, p)]
    IN  { s \in [1..Cardinality(ports) -> {portMap[p] : p \in ports}] :
              \A p \in ports : \E k \in DOMAIN s : s[k] = portMap[p] }

\* the branch of removeDuplicateAssets that merges asset into *existing: the
\* values it can leave there
MergeAsset(existing, asset) ==
    LET e1 == [existing EXCEPT
                   !.MAC = IF @ = "" /\ asset.MAC # "" THEN asset.MAC ELSE @,
                   !.Vendor = IF @ = "" /\ asset.Vendor # "" THEN asset.Vendor ELSE @,
                   !.Hostname = IF @ = "" /\ asset.Hostname # "" THEN asset.Hostname ELSE @,
                   !.LastSeen = IF asset.LastSeen > @ THEN asset.LastSeen ELSE @,
                   !.ARPResponse = IF asset.ARPResponse THEN TRUE ELSE @]
    IN  IF Len(asset.OpenPorts) > 0
        THEN { [e1 EXCEPT !.OpenPorts = o] :
                   o \in mergePortResults(existing.OpenPorts, asset.OpenPorts) }
        ELSE {e1}

\* mergeResults is called on a record and a finding
InitMergeResults ==
    /\ mNew \in MergeFindings
    /\ \E e \in MergeRecords : mTrail = << e >>
    /\ AssetsIdle

\* removeDuplicateAssets is called with an asset and then MaxMerges copies of
\* another for the same address
InitRemoveDuplicates ==
    /\ MergeIdle
    /\ \E e \in AssetValues, f \in AssetValues :
           uAssets = << e >> \o [k \in 1..MaxMerges |-> f]
    /\ uTrail = << >>
    /\ uRet = << >>
    /\ uPc = "loop"

InitMerge ==
    /\ cidr = BadCIDR
    /\ enablePortScan = FALSE
    /\ pc = "idle"
    /\ arpReply = {}
    /\ echoReply = {}
    /\ tcpAccept = {}
    /\ DiscoverAtRest
    /\ ARPIdle
    /\ SmartIdle
    /\ PingIdle
    /\ RemoteIdle
    /\ RangeIdle
    /\ ProbeIdle
    /\ (InitMergeResults \/ InitRemoveDuplicates)
    /\ ProbeCallIdle
    /\ HostScanIdle
    /\ FileScanIdle
    /\ RetryIdle
    /\ EchoIdle
    /\ PublicIdle
    /\ PerformScanIdle
    /\ DaemonIdle

\* ed.mergeResults(existing, &new): *existing is changed in place
MergeCall ==
    /\ Len(mTrail) >= 1
    /\ Len(mTrail) <= MaxMerges
    /\ mTrail' = Append(mTrail, mergeResults(mTrail[Len(mTrail)], mNew))
    /\ UNCHANGED << avars, dvars, svars, pvars, rvars, cvars, tvars, mNew, uvars,
                    kvars, hvars, fvars, yvars, evars, bvars, gvars, nvars >>

\* one iteration of `for _, asset := range assets`: the first asset of the
\* address is copied into the map, a later one is merged into that copy
RemoveDuplicatesStep ==
    /\ uPc = "loop"
    /\ Len(uTrail) < Len(uAssets)
    /\ LET asset == uAssets[Len(uTrail) + 1]
       IN  IF Len(uTrail) = 0
           THEN uTrail' = << asset >>
           ELSE \E e \in MergeAsset(uTrail[Len(uTrail)], asset) :
                    uTrail' = Append(uTrail, e)
    /\ UNCHANGED << avars, dvars, svars, pvars, rvars, cvars, tvars, mvars, uAssets,
                    uRet, uPc, kvars, hvars, fvars, yvars, evars, bvars, gvars,
                    nvars >>

\* the range is finished: the values of assetMap are returned
RemoveDuplicatesReturn ==
    /\ uPc = "loop"
    /\ Len(uTrail) = Len(uAssets)
    /\ uRet' = << uTrail[Len(uTrail)] >>
    /\ uPc' = "done"
    /\ UNCHANGED << avars, dvars, svars, pvars, rvars, cvars, tvars, mvars, uAssets,
                    uTrail, kvars, hvars, fvars, yvars, evars, bvars, gvars, nvars
                    >>

NextMerge == MergeCall \/ RemoveDuplicatesStep \/ RemoveDuplicatesReturn

SpecMerge == InitMerge /\ [][NextMerge]_vars

\* C18: by every merge a flag that was true stays true; MAC, Vendor and
\* ResponseTime that were non-empty or non-zero stay so; and a field only
\* changes when the finding holds a true flag, a non-empty MAC or Vendor, or
\* a non-zero ResponseTime for it.
C18_MergeIsMonotonic ==
    \A k \in 1..(Len(mTrail) - 1) :
        LET before == mTrail[k]
            after  == mTrail[k + 1]
        IN  /\ before.FoundByARP => after.FoundByARP
            /\ before.FoundByICMP => after.FoundByICMP
            /\ before.FoundByTCP => after.FoundByTCP
            /\ before.MAC # "" => after.MAC # ""
            /\ before.Vendor # "" => after.Vendor # ""
            /\ before.ResponseTime # 0 => after.ResponseTime # 0
            /\ after.FoundByARP # before.FoundByARP => mNew.FoundByARP
            /\ after.FoundByICMP # before.FoundByICMP => mNew.FoundByICMP
            /\ after.FoundByTCP # before.FoundByTCP => mNew.FoundByTCP
            /\ after.MAC # before.MAC => mNew.MAC # ""
            /\ after.Vendor # before.Vendor => mNew.Vendor # ""
            /\ after.ResponseTime # before.ResponseTime => mNew.ResponseTime # 0
            /\ after.IP = before.IP
            /\ after.Hostname = before.Hostname
            /\ after.OpenPorts = before.OpenPorts

\* a record with a MAC and a response time was merged with an ARP and ICMP
\* finding that holds neither, and kept both
C18_Witness ==
    /\ Len(mTrail) >= 2
    /\ mTrail[1].MAC = "02:00:00:00:00:1"
    /\ mTrail[1].ResponseTime = 7
    /\ mNew.FoundByARP /\ mNew.MAC = ""
    /\ mNew.FoundByICMP /\ mNew.ResponseTime = 0
    /\ mTrail[2].MAC = "02:00:00:00:00:1"
    /\ mTrail[2].ResponseTime = 7

\* C20: the second merge of a finding changes nothing the first had not
\* changed.  mergeResults: the record after two merges is the record after
\* one.  removeDuplicateAssets: after the second copy of an asset MAC, Vendor,
\* Hostname, LastSeen and ARPResponse are as after the first, and OpenPorts
\* holds the same entries, none of them once more.
C20_MergeIsIdempotent ==
    /\ Len(mTrail) >= 3 => mTrail[3] = mTrail[2]
    /\ Len(uTrail) >= 3 =>
           LET once  == uTrail[2]
               twice == uTrail[3]
           IN  /\ [twice EXCEPT !.OpenPorts = << >>] = [once EXCEPT !.OpenPorts = << >>]
               /\ Len(twice.OpenPorts) = Len(once.OpenPorts)
               /\ Range(twice.OpenPorts) = Range(once.OpenPorts)
    /\ uPc = "done" => uRet = << uTrail[Len(uAssets)] >>

\* an asset with ports 22 and 80 was merged twice into one that had port 22
\* and no MAC: the record has its MAC and each port once
C20_Witness ==
    /\ uPc = "done"
    /\ uAssets[1].OpenPorts = << PortEntry(22, "open") >>
    /\ uAssets[1].MAC = ""
    /\ uAssets[2].OpenPorts = << PortEntry(80, "filtered"), PortEntry(22, "open") >>
    /\ uAssets[2].MAC = "02:00:00:00:00:1"
    /\ uRet[1].MAC = "02:00:00:00:00:1"
    /\ Len(uRet[1].OpenPorts) = 2

\* the (port number, protocol) pairs of a list of port results
PortPairs(list) == {<< e.Port, e.Protocol >> : e \in Range(list)}

\* C37: the list mergePortResults(existing, new) makes holds one entry for
\* every distinct (port number, protocol) pair of either input, so a TCP and
\* a UDP result on one port number are both kept, and no pair twice.
C37_MergeKeepsPortAndProtocol ==
    \A k \in 2..Len(uTrail) :
        Len(uAssets[k].OpenPorts) > 0 =>
            LET merged == uTrail[k].OpenPorts
            IN  /\ PortPairs(merged) =
                       PortPairs(uTrail[k - 1].OpenPorts) \cup PortPairs(uAssets[k].OpenPorts)
                /\ Len(merged) = Cardinality(PortPairs(merged))

(***************************************************************************)
(* The merge of DiscoverHosts and the order of arrival                     *)
(***************************************************************************)
\* the record the merge loop makes of the findings s of one address when each
\* finding is a value of its own: the first becomes the record, each later
\* one is merged into it by mergeResults
RECURSIVE MergeInOrder(_)
MergeInOrder(s) ==
    IF Len(s) = 1 THEN s[1]
    ELSE mergeResults(MergeInOrder(SubSeq(s, 1, Len(s) - 1)), s[Len(s)])

\* the findings sent for ip
FindingsFor(ip) == {f \in sent : f.IP = ip}

\* C19: the findings sent for an address never disagree on a field (one MAC,
\* one response time); whatever order they arrived in, the record returned
\* for the address has the flags, MAC, Vendor and ResponseTime that merging
\* them gives in every one of their orders, the first finding creating the
\* record.
C19_MergeOrderIndependent ==
    Returned =>
        \A ip \in Hosts :
            \A order \in Orderings(FindingsFor(ip)) :
                Len(order) > 0 =>
                    /\ RecordsFor(ip) # {}
                    /\ \A i \in RecordsFor(ip) :
                           LET r == activeResults[i]
                               m == MergeInOrder(order)
                           IN  /\ r.FoundByARP = m.FoundByARP
                               /\ r.FoundByICMP = m.FoundByICMP
                               /\ r.FoundByTCP = m.FoundByTCP
                               /\ r.MAC = m.MAC
                               /\ r.Vendor = m.Vendor
                               /\ r.ResponseTime = m.ResponseTime

(***************************************************************************)
(* One port probe: scanTCPPort and scanUDPPort                             *)
(***************************************************************************)
\* the probes that are made
ProbeCalls ==
    { [scanner |-> s, protocol |-> p, port |-> n, dial |-> d, write |-> w, read |-> r] :
      s \in {"PortScanner", "PublicAssetScanner"}, p \in {"tcp", "udp"},
      n \in {80, 161}, d \in DialOutcomes, w \in WriteOutcomes, r \in ReadOutcomes }
        \ { c \in [scanner : {"PublicAssetScanner"}, protocol : {"tcp"}, port : {80, 161},
                   dial : DialOutcomes, write : WriteOutcomes, read : ReadOutcomes] : TRUE }

InitProbeCall ==
    /\ cidr = BadCIDR
    /\ enablePortScan = FALSE
    /\ pc = "idle"
    /\ arpReply = {}
    /\ echoReply = {}
    /\ tcpAccept = {}
    /\ DiscoverAtRest
    /\ ARPIdle
    /\ SmartIdle
    /\ PingIdle
    /\ RemoteIdle
    /\ RangeIdle
    /\ ProbeIdle
    /\ MergeIdle
    /\ AssetsIdle
    /\ kCall \in ProbeCalls
    /\ kOut = << >>
    /\ kErr = ""
    /\ kPc = "call"
    /\ HostScanIdle
    /\ FileScanIdle
    /\ RetryIdle
    /\ EchoIdle
    /\ PublicIdle
    /\ PerformScanIdle
    /\ DaemonIdle

\* PortScanner.scanTCPPort runs
ProbeTCP ==
    /\ kPc = "call"
    /\ kCall.protocol = "tcp"
    /\ LET r == scanTCPPort(<<10, 0, 0, 1>>, kCall.port, kCall.dial, kCall.read)
       IN  kOut' = r.out /\ kErr' = r.err
    /\ kPc' = "done"
    /\ UNCHANGED << avars, dvars, svars, pvars, rvars, cvars, tvars, mvars, uvars,
                    kCall, hvars, fvars, yvars, evars, bvars, gvars, nvars >>

\* scanUDPPort of either scanner runs
ProbeUDP ==
    /\ kPc = "call"
    /\ kCall.protocol = "udp"
    /\ LET r == IF kCall.scanner = "PortScanner"
                THEN scanUDPPort(<<10, 0, 0, 1>>, kCall.port, kCall.dial, kCall.write, kCall.read)
                ELSE PublicScanUDPPort(<<10, 0, 0, 1>>, kCall.port, kCall.dial, kCall.write, kCall.read)
       IN  kOut' = r.out /\ kErr' = r.err
    /\ kPc' = "done"
    /\ UNCHANGED << avars, dvars, svars, pvars, rvars, cvars, tvars, mvars, uvars,
                    kCall, hvars, fvars, yvars, evars, bvars, gvars, nvars >>

NextProbeCall == ProbeTCP \/ ProbeUDP

SpecProbeCall == InitProbeCall /\ [][NextProbeCall]_vars

\* C22: a UDP probe of either scanner that received a reply, with data or
\* without, returns state open; one that received none returns, when it
\* returns a result, state filtered; no UDP result has state closed, also
\* when the dial or the write failed.
C22_UDPOpenOnAnyReply ==
    (kPc = "done" /\ kCall.protocol = "udp") =>
        LET probed  == kCall.dial = "established" /\ kCall.write = "written"
            replied == probed /\ kCall.read \in {"data", "empty"}
        IN  /\ \A i \in DOMAIN kOut : kOut[i].State # "closed"
            /\ replied => (Len(kOut) = 1 /\ kOut[1].State = "open")
            /\ ~replied => \A i \in DOMAIN kOut : kOut[i].State = "filtered"

\* C23: scanTCPPort returns one result and a nil error; its state is closed
\* exactly when the dial was refused, filtered when the dial timed out, open
\* exactly when the connection was established, whatever the banner read met.
C23_TCPStateFromDial ==
    (kPc = "done" /\ kCall.protocol = "tcp") =>
        /\ Len(kOut) = 1
        /\ kErr = "nil"
        /\ kOut[1].State = "closed" <=> kCall.dial = "refused"
        /\ kCall.dial = "timeout" => kOut[1].State = "filtered"
        /\ kOut[1].State = "open" <=> kCall.dial = "established"

\* a connection was established, the banner read ran into its deadline, and
\* the port is reported open without a banner and without an error
C23_Witness ==
    /\ kPc = "done"
    /\ kCall.protocol = "tcp"
    /\ kCall.dial = "established"
    /\ kCall.read = "timeout"
    /\ kOut = << PortResult(<<10, 0, 0, 1>>, kCall.port, "tcp", "open", "") >>
    /\ kErr = "nil"

(***************************************************************************)
(* performPortScanning, one probe at a time                                *)
(***************************************************************************)
\* the lists of active hosts phase 2 starts with: one host, two hosts, and
\* two copies of one record
HostScanInputs ==
    { << ICMPFinding(<<10, 0, 0, 1>>, 7) >>,
      << ICMPFinding(<<10, 0, 0, 1>>, 7), TCPFinding(<<10, 0, 0, 2>>) >>,
      << TCPFinding(<<10, 0, 0, 2>>), ICMPFinding(<<10, 0, 0, 1>>, 7) >>,
      << TCPFinding(<<10, 0, 0, 2>>), TCPFinding(<<10, 0, 0, 2>>) >> }

\* DiscoverHosts at line 135, phase 1 over, port scanning enabled
InitHostScan ==
    /\ cidr = [valid |-> TRUE, ip |-> <<10, 0, 0, 0>>, bits |-> 30]
    /\ enablePortScan = TRUE
    /\ arpReply = {}
    /\ echoReply = {}
    /\ tcpAccept = {}
    /\ pc = "portscan"
    /\ ips = << >>
    /\ resultChan = << >>
    /\ chanClosed = TRUE
    /\ closerPc = "done"
    /\ wg = 0
    /\ arpPc = "done"
    /\ arpNetwork = BadCIDR
    /\ arpPending = {}
    /\ arpFailure = "none"
    /\ icmpPc = "done"
    /\ icmpPending = {}
    /\ tcpPc = "done"
    /\ tcpIdx = 0
    /\ cells = << >>
    /\ resultsMap = << >>
    /\ iter = 0
    /\ activeResults \in HostScanInputs
    /\ err = "none"
    /\ sent = {}
    /\ sendOnClosed = FALSE
    /\ scannedPorts = {}
    /\ ARPIdle
    /\ SmartIdle
    /\ PingIdle
    /\ RemoteIdle
    /\ RangeIdle
    /\ ProbeIdle
    /\ MergeIdle
    /\ AssetsIdle
    /\ ProbeCallIdle
    /\ hEnv \in [Hosts -> PortProfiles]
    /\ hI = 0
    /\ hPc = "next"
    /\ hTcp = 0
    /\ hUdp = 0
    /\ FileScanIdle
    /\ RetryIdle
    /\ EchoIdle
    /\ PublicIdle
    /\ PerformScanIdle
    /\ DaemonIdle

\* lines 233-242: the next record; the reverse lookup; ScanHost starts its
\* two goroutines
HostScanNext ==
    /\ pc = "portscan"
    /\ hPc = "next"
    /\ hI < Len(activeResults)
    /\ hI' = hI + 1
    /\ \E name \in LookupNames :
          activeResults' = [activeResults EXCEPT
                               ![hI + 1].Hostname = IF name # "" THEN name ELSE @]
    /\ scannedPorts' = scannedPorts \cup {activeResults[hI + 1].IP}
    /\ hTcp' = 0
    /\ hUdp' = 0
    /\ hPc' = "scan"
    /\ UNCHANGED << cidr, enablePortScan, arpReply, echoReply, tcpAccept, pc, ips,
                    resultChan, chanClosed, closerPc, wg, arpPc, arpNetwork,
                    arpPending, arpFailure, icmpPc, icmpPending, tcpPc, tcpIdx,
                    cells, resultsMap, iter, err, sent, sendOnClosed, avars, svars,
                    pvars, rvars, cvars, tvars, mvars, uvars, kvars, hEnv, fvars,
                    yvars, evars, bvars, gvars, nvars >>

\* ScanHost, lines 260-265: the TCP goroutine probes its next port and sends
\* the result (the channel holds all results)
HostScanTCPStep ==
    /\ hPc = "scan"
    /\ hTcp < Len(commonTCPPorts)
    /\ hTcp' = hTcp + 1
    /\ UNCHANGED << avars, dvars, svars, pvars, rvars, cvars, tvars, mvars, uvars,
                    kvars, hEnv, hI, hPc, hUdp, fvars, yvars, evars, bvars, gvars,
                    nvars >>

\* ScanHost, lines 273-278: the UDP goroutine probes its next port
HostScanUDPStep ==
    /\ hPc = "scan"
    /\ hUdp < Len(commonUDPPorts)
    /\ hUdp' = hUdp + 1
    /\ UNCHANGED << avars, dvars, svars, pvars, rvars, cvars, tvars, mvars, uvars,
                    kvars, hEnv, hI, hPc, hTcp, fvars, yvars, evars, bvars, gvars,
                    nvars >>

\* ScanHost, lines 282-292: both goroutines are done, the channel is closed,
\* the results are returned; performPortScanning lines 249-253 appends the
\* open ones to the record
HostScanCollect ==
    /\ hPc = "scan"
    /\ hTcp = Len(commonTCPPorts)
    /\ hUdp = Len(commonUDPPorts)
    /\ \E found \in OpenPortsFound(activeResults[hI].IP, hEnv[activeResults[hI].IP]) :
          activeResults' = [activeResults EXCEPT ![hI].OpenPorts = @ \o found]
    /\ hPc' = "next"
    /\ UNCHANGED << cidr, enablePortScan, arpReply, echoReply, tcpAccept, pc, ips,
                    resultChan, chanClosed, closerPc, wg, arpPc, arpNetwork,
                    arpPending, arpFailure, icmpPc, icmpPending, tcpPc, tcpIdx,
                    cells, resultsMap, iter, err, sent, sendOnClosed, scannedPorts,
                    avars, svars, pvars, rvars, cvars, tvars, mvars, uvars, kvars,
                    hEnv, hI, hTcp, hUdp, fvars, yvars, evars, bvars, gvars, nvars
                    >>

\* line 233: the range over *results is finished; back in DiscoverHosts
HostScanEnd ==
    /\ pc = "portscan"
    /\ hPc = "next"
    /\ hI = Len(activeResults)
    /\ hPc' = "done"
    /\ pc' = "sort"
    /\ UNCHANGED << cidr, enablePortScan, arpReply, echoReply, tcpAccept, ips,
                    resultChan, chanClosed, closerPc, wg, arpPc, arpNetwork,
                    arpPending, arpFailure, icmpPc, icmpPending, tcpPc, tcpIdx,
                    cells, resultsMap, iter, activeResults, err, sent, sendOnClosed,
                    scannedPorts, avars, svars, pvars, rvars, cvars, tvars, mvars,
                    uvars, kvars, hEnv, hI, hTcp, hUdp, fvars, yvars, evars, bvars,
                    gvars, nvars >>

NextHostScan ==
    \/ HostScanNext
    \/ HostScanTCPStep
    \/ HostScanUDPStep
    \/ HostScanCollect
    \/ HostScanEnd
    \/ SortAndReturn

SpecHostScan == InitHostScan /\ [][NextHostScan]_vars

\* C21: every returned record of a host whose only open candidate port is
\* 80/tcp holds exactly one port record: port 80, tcp, open; the candidate
\* ports the host refuses or leaves unanswered add none.
C21_OnlyOpenPortRecorded ==
    (Returned /\ hPc = "done") =>
        \A i \in DOMAIN activeResults :
            LET r == activeResults[i]
            IN  (hEnv[r.IP].tcp = {80} /\ hEnv[r.IP].udp = {}) =>
                    /\ Len(r.OpenPorts) = 1
                    /\ r.OpenPorts[1].IP = r.IP
                    /\ r.OpenPorts[1].Port = 80
                    /\ r.OpenPorts[1].Protocol = "tcp"
                    /\ r.OpenPorts[1].State = "open"

\* two hosts were scanned and returned: one that accepts on 80 only and lets
\* the other ports time out, with its one port record, and one that also
\* answers on 161/udp, with two
C21_Witness ==
    /\ Returned /\ hPc = "done"
    /\ Len(activeResults) = 2
    /\ hEnv[activeResults[1].IP] = PortProfile({80}, {}, FALSE)
    /\ Len(activeResults[1].OpenPorts) = 1
    /\ hEnv[activeResults[2].IP] = PortProfile({80}, {161}, TRUE)
    /\ Len(activeResults[2].OpenPorts) = 2

\* C24: while the port scan of one host is still running and another host
\* waits, the scan of that next host can start.
C24_HostScansDoNotWait ==
    (hPc = "scan" /\ hI < Len(activeResults)) => ENABLED HostScanNext

(***************************************************************************)
(* The daemon's file-target scan                                           *)
(***************************************************************************)
\* the most lines of a target list file
MaxFileLines == 3

\* the lines a target list file can hold: a comment, a blank line, two
\* prefixes, a single address, and a line that is none of these
FileLines ==
    { OtherTarget("comment"), OtherTarget("blank"), OtherTarget("bad"),
      CIDRTarget(<<10, 0, 0, 0>>, 30), CIDRTarget(<<10, 0, 1, 0>>, 30),
      IPTarget(<<10, 0, 1, 1>>) }

\* the files of up to n lines
TargetFiles(n) == UNION { [1..k -> FileLines] : k \in 0..n }

InitFileScan ==
    /\ cidr = BadCIDR
    /\ enablePortScan = FALSE
    /\ pc = "idle"
    /\ arpReply = {}
    /\ echoReply = {}
    /\ tcpAccept = {}
    /\ DiscoverAtRest
    /\ ARPIdle
    /\ SmartIdle
    /\ PingIdle
    /\ RemoteIdle
    /\ RangeIdle
    /\ ProbeIdle
    /\ MergeIdle
    /\ AssetsIdle
    /\ ProbeCallIdle
    /\ HostScanIdle
    /\ fLines \in TargetFiles(MaxFileLines)
    /\ fExclude \in {BadCIDR, [valid |-> TRUE, ip |-> <<10, 0, 0, 0>>, bits |-> 30]}
    /\ fIdx = 0
    /\ fCidrs = << >>
    /\ fErr = ""
    /\ fScanned = << >>
    /\ fPc = "read"
    /\ RetryIdle
    /\ EchoIdle
    /\ PublicIdle
    /\ PerformScanIdle
    /\ DaemonIdle

\* ReadCIDRsFromFile, lines 21-26: an empty line or a comment is skipped
FileReadSkip ==
    /\ fPc = "read"
    /\ fIdx < Len(fLines)
    /\ fLines[fIdx + 1].kind \in {"comment", "blank"}
    /\ fIdx' = fIdx + 1
    /\ UNCHANGED << avars, dvars, svars, pvars, rvars, cvars, tvars, mvars, uvars,
                    kvars, hvars, fLines, fExclude, fCidrs, fErr, fScanned, fPc,
                    yvars, evars, bvars, gvars, nvars >>

\* lines 28-32: net.ParseCIDR accepts the line; it is appended
FileReadAppend ==
    /\ fPc = "read"
    /\ fIdx < Len(fLines)
    /\ fLines[fIdx + 1].kind \notin {"comment", "blank"}
    /\ AsCIDR(fLines[fIdx + 1]).valid
    /\ fCidrs' = Append(fCidrs, AsCIDR(fLines[fIdx + 1]))
    /\ fIdx' = fIdx + 1
    /\ UNCHANGED << avars, dvars, svars, pvars, rvars, cvars, tvars, mvars, uvars,
                    kvars, hvars, fLines, fExclude, fErr, fScanned, fPc, yvars,
                    evars, bvars, gvars, nvars >>

\* lines 28-31: net.ParseCIDR rejects the line: return nil, err; and
\* scanFileTargetsExcluding, lines 159-162, logs and returns no asset
FileReadFail ==
    /\ fPc = "read"
    /\ fIdx < Len(fLines)
    /\ fLines[fIdx + 1].kind \notin {"comment", "blank"}
    /\ ~AsCIDR(fLines[fIdx + 1]).valid
    /\ fCidrs' = << >>
    /\ fErr' = "invalid CIDR format"
    /\ fPc' = "done"
    /\ UNCHANGED << avars, dvars, svars, pvars, rvars, cvars, tvars, mvars, uvars,
                    kvars, hvars, fLines, fExclude, fIdx, fScanned, yvars, evars,
                    bvars, gvars, nvars >>

\* lines 35-39: the file is read; return cidrs, nil
FileReadEnd ==
    /\ fPc = "read"
    /\ fIdx = Len(fLines)
    /\ fErr' = "nil"
    /\ fPc' = "scan"
    /\ UNCHANGED << avars, dvars, svars, pvars, rvars, cvars, tvars, mvars, uvars,
                    kvars, hvars, fLines, fExclude, fIdx, fCidrs, fScanned, yvars,
                    evars, bvars, gvars, nvars >>

\* scanFileTargetsExcluding, lines 165-169: the local network is skipped
FileScanSkip ==
    /\ fPc = "scan"
    /\ Len(fCidrs) > 0
    /\ Head(fCidrs) = fExclude
    /\ fCidrs' = Tail(fCidrs)
    /\ UNCHANGED << avars, dvars, svars, pvars, rvars, cvars, tvars, mvars, uvars,
                    kvars, hvars, fLines, fExclude, fIdx, fErr, fScanned, fPc,
                    yvars, evars, bvars, gvars, nvars >>

\* lines 171-177: DiscoverAssets is called with the prefix
FileScanTarget ==
    /\ fPc = "scan"
    /\ Len(fCidrs) > 0
    /\ Head(fCidrs) # fExclude
    /\ fScanned' = Append(fScanned, Head(fCidrs))
    /\ fCidrs' = Tail(fCidrs)
    /\ UNCHANGED << avars, dvars, svars, pvars, rvars, cvars, tvars, mvars, uvars,
                    kvars, hvars, fLines, fExclude, fIdx, fErr, fPc, yvars, evars,
                    bvars, gvars, nvars >>

\* line 180: every prefix was looked at
FileScanReturn ==
    /\ fPc = "scan"
    /\ Len(fCidrs) = 0
    /\ fPc' = "done"
    /\ UNCHANGED << avars, dvars, svars, pvars, rvars, cvars, tvars, mvars, uvars,
                    kvars, hvars, fLines, fExclude, fIdx, fCidrs, fErr, fScanned,
                    yvars, evars, bvars, gvars, nvars >>

NextFileScan ==
    \/ FileReadSkip
    \/ FileReadAppend
    \/ FileReadFail
    \/ FileReadEnd
    \/ FileScanSkip
    \/ FileScanTarget
    \/ FileScanReturn

SpecFileScan == InitFileScan /\ [][NextFileScan]_vars

\* C25: a file of comments, blank lines, prefixes and single addresses is
\* accepted, and every prefix in it is scanned (the local network was
\* scanned before and is skipped here).
C25_MixedFileAccepted ==
    (fPc = "done" /\ \A i \in DOMAIN fLines : fLines[i].kind # "bad") =>
        /\ fErr = "nil"
        /\ \A i \in DOMAIN fLines :
               (fLines[i].kind = "cidr" /\ AsCIDR(fLines[i]) # fExclude)
                   => \E k \in DOMAIN fScanned : fScanned[k] = AsCIDR(fLines[i])

(***************************************************************************)
(* ParallelARPScanner.scanIPWithRetry and the worker lines that call it    *)
(***************************************************************************)
\* line 75: scanIPWithRetry(client, ip, 2)
Retries == 2

\* how an attempt can end: SetDeadline fails (line 125), Resolve fails or
\* times out (line 132), Resolve returns the hardware address
AttemptOutcomes == {"deadline error", "no reply", "reply"}

\* a loop that makes one attempt more than asked
AttemptAllowedOnceMore(i, retries) == i <= retries + 1

\* line 116: the loop condition i <= retries
AttemptAllowed(i, retries) == i <= retries

\* the network decides how every attempt would end, also an attempt after
\* the last one the loop makes
InitRetry ==
    /\ cidr = BadCIDR
    /\ enablePortScan = FALSE
    /\ pc = "idle"
    /\ arpReply = {}
    /\ echoReply = {}
    /\ tcpAccept = {}
    /\ DiscoverAtRest
    /\ ARPIdle
    /\ SmartIdle
    /\ PingIdle
    /\ RemoteIdle
    /\ RangeIdle
    /\ ProbeIdle
    /\ MergeIdle
    /\ AssetsIdle
    /\ ProbeCallIdle
    /\ HostScanIdle
    /\ FileScanIdle
    /\ yOutcomes \in [1..(Retries + 2) -> AttemptOutcomes]
    /\ yI = 0
    /\ yResolves = 0
    /\ yLastErr = "nil"
    /\ yRet = << >>
    /\ yPc = "loop"
    /\ EchoIdle
    /\ PublicIdle
    /\ PerformScanIdle
    /\ DaemonIdle

\* the attempt the loop is at
AtAttempt == yPc = "loop" /\ AttemptAllowed(yI, Retries)

\* lines 124-128: SetDeadline fails; lastErr is set, the next attempt follows
RetryDeadlineFail ==
    /\ AtAttempt
    /\ yOutcomes[yI + 1] = "deadline error"
    /\ yLastErr' = "failed to set deadline"
    /\ yI' = yI + 1
    /\ UNCHANGED << avars, dvars, svars, pvars, rvars, cvars, tvars, mvars, uvars,
                    kvars, hvars, fvars, yOutcomes, yResolves, yRet, yPc, evars,
                    bvars, gvars, nvars >>

\* lines 131-135: Resolve returns an error; lastErr is set
RetryResolveFail ==
    /\ AtAttempt
    /\ yOutcomes[yI + 1] = "no reply"
    /\ yResolves' = yResolves + 1
    /\ yLastErr' = "ARP request failed"
    /\ yI' = yI + 1
    /\ UNCHANGED << avars, dvars, svars, pvars, rvars, cvars, tvars, mvars, uvars,
                    kvars, hvars, fvars, yOutcomes, yRet, yPc, evars, bvars, gvars,
                    nvars >>

\* lines 131, 138-142: Resolve returns the address; the result is returned
RetryResolved ==
    /\ AtAttempt
    /\ yOutcomes[yI + 1] = "reply"
    /\ yResolves' = yResolves + 1
    /\ yRet' = << [result |-> TRUE, err |-> "nil"] >>
    /\ yPc' = "returned"
    /\ UNCHANGED << avars, dvars, svars, pvars, rvars, cvars, tvars, mvars, uvars,
                    kvars, hvars, fvars, yOutcomes, yI, yLastErr, evars, bvars,
                    gvars, nvars >>

\* line 144: the loop is over; return nil, lastErr
RetryGiveUp ==
    /\ yPc = "loop"
    /\ ~AttemptAllowed(yI, Retries)
    /\ yRet' = << [result |-> FALSE, err |-> yLastErr] >>
    /\ yPc' = "returned"
    /\ UNCHANGED << avars, dvars, svars, pvars, rvars, cvars, tvars, mvars, uvars,
                    kvars, hvars, fvars, yOutcomes, yI, yResolves, yLastErr, evars,
                    bvars, gvars, nvars >>

\* lines 76-81: the worker sends the result when err == nil && result != nil
\* and otherwise drops the error
RetryWorkerSend ==
    /\ yPc = "returned"
    /\ arpResultChan' = IF yRet[1].err = "nil" /\ yRet[1].result
                        THEN Append(arpResultChan, [ok |-> TRUE, IP |-> <<10, 0, 0, 1>>,
                                                    MAC |-> HardwareAddr(<<10, 0, 0, 1>>),
                                                    Vendor |-> lookupVendor(HardwareAddr(<<10, 0, 0, 1>>))])
                        ELSE arpResultChan
    /\ yPc' = "done"
    /\ UNCHANGED << aCidr, aWorkers, aPc, aIps, aIdx, ipChan, ipChanClosed,
                    arpResultClosed, errChan, dvars, doneClosed, aResults, aWg, wPc,
                    wCur, wSock, wUse, collectorPc, aRet, failedWorkers, svars,
                    pvars, rvars, cvars, tvars, mvars, uvars, kvars, hvars, fvars,
                    yOutcomes, yI, yResolves, yLastErr, yRet, evars, bvars, gvars,
                    nvars >>

NextRetry ==
    \/ RetryDeadlineFail
    \/ RetryResolveFail
    \/ RetryResolved
    \/ RetryGiveUp
    \/ RetryWorkerSend

SpecRetry == InitRetry /\ [][NextRetry]_vars

\* the attempts 1..n that call Resolve
ResolvesIn(n) == {k \in 1..n : yOutcomes[k] # "deadline error"}

\* the attempts the loop may make that get a reply
RepliedAttempts == {k \in 1..(Retries + 1) : yOutcomes[k] = "reply"}

\* C31: scanIPWithRetry makes at most 3 resolve attempts for an address, it
\* stops at the first attempt that gets a reply, and an address with no
\* reply on any attempt sends no finding and no error
C31_BoundedRetries ==
    /\ yResolves <= 3
    /\ yI <= Retries + 1
    /\ errChan = << >>
    /\ yPc \in {"returned", "done"} =>
          IF RepliedAttempts # {}
          THEN LET first == CHOOSE k \in RepliedAttempts : \A j \in RepliedAttempts : k <= j
               IN  /\ yRet[1].result
                   /\ yI + 1 = first
                   /\ yResolves = Cardinality(ResolvesIn(first))
          ELSE /\ ~yRet[1].result
               /\ yRet[1].err # "nil"
               /\ yResolves = Cardinality(ResolvesIn(Retries + 1))
    /\ yPc = "done" => Len(arpResultChan) = (IF RepliedAttempts = {} THEN 0 ELSE 1)

\* three Resolve calls got no reply, a fourth would have; nothing was sent
C31_Witness ==
    /\ yPc = "done"
    /\ yResolves = 3
    /\ yOutcomes[Retries + 2] = "reply"
    /\ arpResultChan = << >>

(***************************************************************************)
(* DiscoverHosts: the port scanning phase                                  *)
(***************************************************************************)
\* C32: the port prober of DiscoverHosts is invoked only after the three
\* producers have completed and the channel is closed and drained, and only
\* for addresses of the filtered list of live hosts
C32_PortScanAfterDiscovery ==
    (pc = "portscan" \/ scannedPorts # {}) =>
        /\ ProducersDone
        /\ chanClosed
        /\ resultChan = << >>
        /\ scannedPorts \subseteq {f.IP : f \in sent}
        /\ \A a \in scannedPorts :
              \E i \in DOMAIN activeResults :
                  activeResults[i].IP = a /\ IsActive(activeResults[i])

\* DiscoverHosts returned after its port prober scanned a live host
C32_Witness ==
    /\ pc = "done"
    /\ enablePortScan
    /\ scannedPorts # {}

(***************************************************************************)
(* ICMPScanner.pingICMP, packet by packet, in concurrent PingHosts workers *)
(***************************************************************************)
\* PingHosts workers that are pinging at the same time
MaxEchoWorkers == 2

\* the addresses pinged: the two machines and an address nobody holds
EchoAddresses == Hosts \cup { <<10, 0, 0, 3>> }

\* line 97: conn.ReadFrom(reply) takes the next packet of the socket,
\* whatever its source, type, identifier and sequence number
FirstPacket(w) == IF eQueue[w] = << >> THEN << >> ELSE << Head(eQueue[w]) >>

\* each worker took a different address from ipChan (lines 153-154)
InitEcho ==
    /\ cidr = BadCIDR
    /\ enablePortScan = FALSE
    /\ pc = "idle"
    /\ arpReply = {}
    /\ echoReply \in SUBSET Hosts
    /\ tcpAccept = {}
    /\ DiscoverAtRest
    /\ ARPIdle
    /\ SmartIdle
    /\ PingIdle
    /\ RemoteIdle
    /\ RangeIdle
    /\ ProbeIdle
    /\ MergeIdle
    /\ AssetsIdle
    /\ ProbeCallIdle
    /\ HostScanIdle
    /\ FileScanIdle
    /\ RetryIdle
    /\ \E n \in 1..MaxEchoWorkers :
          /\ eTargets \in {t \in [1..n -> EchoAddresses] :
                             \A v, w \in 1..n : v # w => t[v] # t[w]}
          /\ eSock = [w \in 1..n |-> "none"]
          /\ eQueue = [w \in 1..n |-> << >>]
          /\ ePc = [w \in 1..n |-> "listen"]
          /\ eAlive = [w \in 1..n |-> FALSE]
    /\ eNet = {}
    /\ PublicIdle
    /\ PerformScanIdle
    /\ DaemonIdle

\* lines 58, 63-66: icmp.ListenPacket("ip4:icmp", "0.0.0.0") opens a raw
\* socket bound to no peer
EchoListen(w) ==
    /\ ePc[w] = "listen"
    /\ eSock' = [eSock EXCEPT ![w] = "open"]
    /\ ePc' = [ePc EXCEPT ![w] = "send"]
    /\ UNCHANGED << avars, dvars, svars, pvars, rvars, cvars, tvars, mvars, uvars,
                    kvars, hvars, fvars, yvars, eTargets, eQueue, eNet, eAlive,
                    bvars, gvars, nvars >>

\* lines 59-62: the socket cannot be opened; pingICMP returns false
EchoListenFail(w) ==
    /\ ePc[w] = "listen"
    /\ eAlive' = [eAlive EXCEPT ![w] = FALSE]
    /\ ePc' = [ePc EXCEPT ![w] = "done"]
    /\ UNCHANGED << avars, dvars, svars, pvars, rvars, cvars, tvars, mvars, uvars,
                    kvars, hvars, fvars, yvars, eTargets, eSock, eQueue, eNet,
                    bvars, gvars, nvars >>

\* lines 69-93: the echo request (ID 1, Seq 1) is written; a machine that
\* answers echo requests sends its reply
EchoSend(w) ==
    /\ ePc[w] = "send"
    /\ eNet' = IF eTargets[w] \in echoReply THEN eNet \cup {eTargets[w]} ELSE eNet
    /\ ePc' = [ePc EXCEPT ![w] = "read"]
    /\ UNCHANGED << avars, dvars, svars, pvars, rvars, cvars, tvars, mvars, uvars,
                    kvars, hvars, fvars, yvars, eTargets, eSock, eQueue, eAlive,
                    bvars, gvars, nvars >>

\* an echo reply reaches the scanning host: the kernel hands a copy to
\* every open raw ICMP socket
EchoDeliver(src) ==
    /\ src \in eNet
    /\ eNet' = eNet \ {src}
    /\ eQueue' = [w \in DOMAIN eQueue |->
                    IF eSock[w] = "open" THEN Append(eQueue[w], src) ELSE eQueue[w]]
    /\ UNCHANGED << avars, dvars, svars, pvars, rvars, cvars, tvars, mvars, uvars,
                    kvars, hvars, fvars, yvars, eTargets, eSock, ePc, eAlive, bvars,
                    gvars, nvars >>

\* lines 96-98, 63: ReadFrom returns a packet, err == nil; the socket is
\* closed
EchoRead(w) ==
    /\ ePc[w] = "read"
    /\ FirstPacket(w) # << >>
    /\ eAlive' = [eAlive EXCEPT ![w] = TRUE]
    /\ eSock' = [eSock EXCEPT ![w] = "closed"]
    /\ eQueue' = [eQueue EXCEPT ![w] = << >>]
    /\ ePc' = [ePc EXCEPT ![w] = "done"]
    /\ UNCHANGED << avars, dvars, svars, pvars, rvars, cvars, tvars, mvars, uvars,
                    kvars, hvars, fvars, yvars, eTargets, eNet, bvars, gvars, nvars
                    >>

\* lines 66, 97-98, 63: the deadline passes with no packet to read
EchoTimeout(w) ==
    /\ ePc[w] = "read"
    /\ FirstPacket(w) = << >>
    /\ eAlive' = [eAlive EXCEPT ![w] = FALSE]
    /\ eSock' = [eSock EXCEPT ![w] = "closed"]
    /\ eQueue' = [eQueue EXCEPT ![w] = << >>]
    /\ ePc' = [ePc EXCEPT ![w] = "done"]
    /\ UNCHANGED << avars, dvars, svars, pvars, rvars, cvars, tvars, mvars, uvars,
                    kvars, hvars, fvars, yvars, eTargets, eNet, bvars, gvars, nvars
                    >>

NextEcho ==
    \/ \E w \in DOMAIN ePc : EchoListen(w)
    \/ \E w \in DOMAIN ePc : EchoListenFail(w)
    \/ \E w \in DOMAIN ePc : EchoSend(w)
    \/ \E src \in EchoAddresses : EchoDeliver(src)
    \/ \E w \in DOMAIN ePc : EchoRead(w)
    \/ \E w \in DOMAIN ePc : EchoTimeout(w)

SpecEcho == InitEcho /\ [][NextEcho]_vars

\* C34: a worker's pingICMP reports its address alive only if an echo reply
\* from that address was received, whatever replies concurrent workers'
\* requests draw from other hosts
C34_AliveOnlyByOwnReply ==
    \A w \in DOMAIN ePc :
        (ePc[w] = "done" /\ eAlive[w]) => eTargets[w] \in echoReply

(***************************************************************************)
(* PublicAssetScanner.ScanPublicAssets: the TCP and UDP phases             *)
(***************************************************************************)
\* PublicAssetScanner.scanTCPPort (lines 392-412): nil unless the dial
\* succeeds, else an open result
PublicScanTCPPort(ip, port, dial) ==
    IF dial # "established" THEN Returns(<< >>, "nil")
    ELSE Returns(<< PortResult(ip, port, "tcp", "open", "") >>, "nil")

\* the port lists ScanPublicAssets is called with
PublicTCPPortLists == {{}, {80}, {22, 80}}

PublicUDPPortLists == {{}, {161}, {53, 161}}

\* performPingScan found one live host, 10.0.0.1 (lines 239-250); its asset
\* starts with an empty OpenPorts (line 343)
InitPublic ==
    /\ cidr = BadCIDR
    /\ enablePortScan = FALSE
    /\ pc = "idle"
    /\ arpReply = {}
    /\ echoReply = {}
    /\ tcpAccept = {}
    /\ DiscoverAtRest
    /\ ARPIdle
    /\ SmartIdle
    /\ PingIdle
    /\ RemoteIdle
    /\ RangeIdle
    /\ ProbeIdle
    /\ MergeIdle
    /\ AssetsIdle
    /\ ProbeCallIdle
    /\ HostScanIdle
    /\ FileScanIdle
    /\ RetryIdle
    /\ EchoIdle
    /\ bEnv \in PortProfiles
    /\ bTcpPorts \in PublicTCPPortLists
    /\ bUdpPorts \in PublicUDPPortLists
    /\ bPc = "tcp"
    /\ bJobs = bTcpPorts
    /\ bResults = << >>
    /\ bOpenPorts = << >>
    /\ PerformScanIdle
    /\ DaemonIdle

\* performTCPScan, lines 368-375: a worker takes a job; the result is kept
\* when it is not nil and its State is PortOpen
PublicTCPJob(port) ==
    /\ bPc = "tcp"
    /\ port \in bJobs
    /\ LET r == PublicScanTCPPort(<<10, 0, 0, 1>>, port, TCPDial(bEnv, port)).out
       IN  bResults' = IF r # << >> /\ r[1].State = "open" THEN bResults \o r ELSE bResults
    /\ bJobs' = bJobs \ {port}
    /\ UNCHANGED << avars, dvars, svars, pvars, rvars, cvars, tvars, mvars, uvars,
                    kvars, hvars, fvars, yvars, evars, bEnv, bTcpPorts, bUdpPorts,
                    bPc, bOpenPorts, gvars, nvars >>

\* lines 253-266: the TCP phase is over (or was skipped); its results are
\* appended to asset.OpenPorts
PublicTCPCollect ==
    /\ bPc = "tcp"
    /\ bJobs = {}
    /\ bOpenPorts' = bOpenPorts \o bResults
    /\ bResults' = << >>
    /\ bJobs' = bUdpPorts
    /\ bPc' = "udp"
    /\ UNCHANGED << avars, dvars, svars, pvars, rvars, cvars, tvars, mvars, uvars,
                    kvars, hvars, fvars, yvars, evars, bEnv, bTcpPorts, bUdpPorts,
                    gvars, nvars >>

\* performUDPScan, lines 432-439: a worker takes a job; the result is kept
\* when it is not nil
PublicUDPJob(port) ==
    /\ bPc = "udp"
    /\ port \in bJobs
    /\ LET r == PublicScanUDPPort(<<10, 0, 0, 1>>, port, "established", "written",
                                  UDPRead(bEnv, port)).out
       IN  bResults' = IF r # << >> THEN bResults \o r ELSE bResults
    /\ bJobs' = bJobs \ {port}
    /\ UNCHANGED << avars, dvars, svars, pvars, rvars, cvars, tvars, mvars, uvars,
                    kvars, hvars, fvars, yvars, evars, bEnv, bTcpPorts, bUdpPorts,
                    bPc, bOpenPorts, gvars, nvars >>

\* lines 266-287: the UDP phase is over (or was skipped); its results are
\* appended to asset.OpenPorts and the assets are returned
PublicUDPCollect ==
    /\ bPc = "udp"
    /\ bJobs = {}
    /\ bOpenPorts' = bOpenPorts \o bResults
    /\ bResults' = << >>
    /\ bPc' = "done"
    /\ UNCHANGED << avars, dvars, svars, pvars, rvars, cvars, tvars, mvars, uvars,
                    kvars, hvars, fvars, yvars, evars, bEnv, bTcpPorts, bUdpPorts,
                    bJobs, gvars, nvars >>

NextPublic ==
    \/ \E port \in UNION PublicTCPPortLists : PublicTCPJob(port)
    \/ PublicTCPCollect
    \/ \E port \in UNION PublicUDPPortLists : PublicUDPJob(port)
    \/ PublicUDPCollect

SpecPublic == InitPublic /\ [][NextPublic]_vars

\* C35: every entry of a host's OpenPorts has State = open, also after the
\* UDP phase of the public scan
C35_OpenPortsAreOpen ==
    \A k \in DOMAIN bOpenPorts : bOpenPorts[k].State = "open"

(***************************************************************************)
(* performScan: the sources, removeDuplicateAssets on all of them, and the *)
(* AssetResult that is saved                                               *)
(***************************************************************************)
\* the most assets one source (the local network, the file targets) yields
MaxSourceAssets == 2

\* the assets DiscoverAssets can return for the addresses 10.0.0.1 and 10.0.0.2
SourceAssets ==
    { [ IP |-> ip, MAC |-> m, Vendor |-> "", Hostname |-> "",
        OpenPorts |-> IF m = "" THEN << >> ELSE << PortEntry(22, "open") >>,
        LastSeen |-> 1, ARPResponse |-> m # "" ] :
      ip \in {<<10, 0, 0, 1>>, <<10, 0, 0, 2>>}, m \in {"", "02:00:00:00:00:1"} }

\* the asset lists one source can yield
SourceLists == UNION { [1..n -> SourceAssets] : n \in 0..MaxSourceAssets }

\* a key of assetMap that tells two assets of one address apart by their MAC
AssetKeyWithMAC(asset) == << asset.IP, asset.MAC >>

\* the key of assetMap: assetMap[asset.IP]
AssetKey(asset) == asset.IP

\* the slices `for _, asset := range assetMap` can append: the values of the
\* map in any order
MapValues(map) ==
    { [k \in 1..Cardinality(DOMAIN map) |-> map[order[k]]] :
          order \in { o \in [1..Cardinality(DOMAIN map) -> DOMAIN map] :
                          \A i, j \in DOMAIN o : o[i] = o[j] => i = j } }

\* the assets of the sources performScan scans
ScannedAssets ==
    (IF gCfg.local THEN Range(gLocal) ELSE {}) \cup (IF gCfg.file THEN Range(gFile) ELSE {})

InitPerformScan ==
    /\ cidr = BadCIDR
    /\ enablePortScan = FALSE
    /\ pc = "idle"
    /\ arpReply = {}
    /\ echoReply = {}
    /\ tcpAccept = {}
    /\ DiscoverAtRest
    /\ ARPIdle
    /\ SmartIdle
    /\ PingIdle
    /\ RemoteIdle
    /\ RangeIdle
    /\ ProbeIdle
    /\ MergeIdle
    /\ AssetsIdle
    /\ ProbeCallIdle
    /\ HostScanIdle
    /\ FileScanIdle
    /\ RetryIdle
    /\ EchoIdle
    /\ PublicIdle
    /\ gCfg \in [local : BOOLEAN, file : BOOLEAN]
    /\ gLocal \in SourceLists
    /\ gFile \in SourceLists
    /\ gAll = << >>
    /\ gMap = << >>
    /\ gNext = 0
    /\ gUnique = << >>
    /\ gSaved = << >>
    /\ gPc = "local"
    /\ DaemonIdle

\* `if cfg.Network.ScanLocalNetwork`: the local assets are appended
PerformScanLocal ==
    /\ gPc = "local"
    /\ gAll' = IF gCfg.local THEN gLocal ELSE << >>
    /\ gPc' = "file"
    /\ UNCHANGED << avars, dvars, svars, pvars, rvars, cvars, tvars, mvars, uvars,
                    kvars, hvars, fvars, yvars, evars, bvars, gCfg, gLocal, gFile,
                    gMap, gNext, gUnique, gSaved, nvars >>

\* `if cfg.Network.ScanFileList`: the file assets are appended, and
\* removeDuplicateAssets(allAssets) makes its empty map
PerformScanFile ==
    /\ gPc = "file"
    /\ gAll' = gAll \o (IF gCfg.file THEN gFile ELSE << >>)
    /\ gMap' = << >>
    /\ gNext' = 1
    /\ gPc' = "dedup"
    /\ UNCHANGED << avars, dvars, svars, pvars, rvars, cvars, tvars, mvars, uvars,
                    kvars, hvars, fvars, yvars, evars, bvars, gCfg, gLocal, gFile,
                    gUnique, gSaved, nvars >>

\* one iteration of `for _, asset := range assets` of removeDuplicateAssets
DedupStep ==
    /\ gPc = "dedup"
    /\ gNext <= Len(gAll)
    /\ LET asset == gAll[gNext]
           key   == AssetKey(asset)
       IN  IF key \in DOMAIN gMap
           THEN \E e \in MergeAsset(gMap[key], asset) :
                    gMap' = [gMap EXCEPT ![key] = e]
           ELSE gMap' = (key :> asset) @@ gMap
    /\ gNext' = gNext + 1
    /\ UNCHANGED << avars, dvars, svars, pvars, rvars, cvars, tvars, mvars, uvars,
                    kvars, hvars, fvars, yvars, evars, bvars, gCfg, gLocal, gFile,
                    gAll, gUnique, gSaved, gPc, nvars >>

\* removeDuplicateAssets returns the values of assetMap
DedupReturn ==
    /\ gPc = "dedup"
    /\ gNext > Len(gAll)
    /\ gUnique' \in MapValues(gMap)
    /\ gPc' = "result"
    /\ UNCHANGED << avars, dvars, svars, pvars, rvars, cvars, tvars, mvars, uvars,
                    kvars, hvars, fvars, yvars, evars, bvars, gCfg, gLocal, gFile,
                    gAll, gMap, gNext, gSaved, nvars >>

\* the AssetResult is built and saveResult writes it
PerformScanSave ==
    /\ gPc = "result"
    /\ gSaved' = << [TotalHosts |-> Len(gUnique), Assets |-> gUnique] >>
    /\ gPc' = "done"
    /\ UNCHANGED << avars, dvars, svars, pvars, rvars, cvars, tvars, mvars, uvars,
                    kvars, hvars, fvars, yvars, evars, bvars, gCfg, gLocal, gFile,
                    gAll, gMap, gNext, gUnique, nvars >>

\* saveResult: ioutil.WriteFile fails, the error is logged and nothing is saved
PerformScanSaveFail ==
    /\ gPc = "result"
    /\ gPc' = "done"
    /\ UNCHANGED << avars, dvars, svars, pvars, rvars, cvars, tvars, mvars, uvars,
                    kvars, hvars, fvars, yvars, evars, bvars, gCfg, gLocal, gFile,
                    gAll, gMap, gNext, gUnique, gSaved, nvars >>

NextPerformScan ==
    \/ PerformScanLocal
    \/ PerformScanFile
    \/ DedupStep
    \/ DedupReturn
    \/ PerformScanSave
    \/ PerformScanSaveFail

SpecPerformScan == InitPerformScan /\ [][NextPerformScan]_vars

\* C38: in the AssetResult performScan saves TotalHosts is the number of
\* entries of Assets, no two entries of Assets have the same IP, and the
\* addresses of Assets are the addresses found in the scanned sources, each
\* of them once.
C38_SavedAssetsAreUnique ==
    gSaved # << >> =>
        LET r == gSaved[1]
        IN  /\ r.TotalHosts = Len(r.Assets)
            /\ \A i, j \in DOMAIN r.Assets : r.Assets[i].IP = r.Assets[j].IP => i = j
            /\ {a.IP : a \in Range(r.Assets)} = {a.IP : a \in ScannedAssets}

\* the local network and the file targets both held 10.0.0.1, the file
\* targets 10.0.0.2 too: the saved result holds two assets
C38_Witness ==
    /\ gSaved # << >>
    /\ gCfg.local
    /\ gCfg.file
    /\ \E a \in Range(gLocal), b \in Range(gFile) : a.IP = b.IP /\ a.MAC # b.MAC
    /\ Len(gAll) = 3
    /\ gSaved[1].TotalHosts = 2

(***************************************************************************)
(* main of the daemon: the first performScan, then the select on ticker.C  *)
(* and stop                                                                *)
(***************************************************************************)
\* the most calls of performScan that are followed
MaxScans == 5

\* the signals signal.Notify(stop, os.Interrupt, syscall.SIGTERM) relays
Signals == {"SIGINT", "SIGTERM"}

\* where main is while the process runs: in one of the three parts of
\* performScan, or at the select
DaemonAlive == {"local", "file", "save", "select"}

\* main has made discovery, stop and ticker and is in the first performScan
InitDaemon ==
    /\ cidr = BadCIDR
    /\ enablePortScan = FALSE
    /\ pc = "idle"
    /\ arpReply = {}
    /\ echoReply = {}
    /\ tcpAccept = {}
    /\ DiscoverAtRest
    /\ ARPIdle
    /\ SmartIdle
    /\ PingIdle
    /\ RemoteIdle
    /\ RangeIdle
    /\ ProbeIdle
    /\ MergeIdle
    /\ AssetsIdle
    /\ ProbeCallIdle
    /\ HostScanIdle
    /\ FileScanIdle
    /\ RetryIdle
    /\ EchoIdle
    /\ PublicIdle
    /\ PerformScanIdle
    /\ nPc = "local"
    /\ nTick = 0
    /\ nStop = << >>
    /\ nScans = 1
    /\ nRunning = 1
    /\ nClosed = FALSE

\* the ticker fires: the tick is put into ticker.C if it is empty, and
\* dropped if it is not
DaemonTick ==
    /\ nPc \in DaemonAlive
    /\ nTick = 0
    /\ nTick' = 1
    /\ UNCHANGED << avars, dvars, svars, pvars, rvars, cvars, tvars, mvars, uvars,
                    kvars, hvars, fvars, yvars, evars, bvars, gvars, nPc, nStop,
                    nScans, nRunning, nClosed >>

\* a signal is delivered to the process: the runtime puts it into stop if it
\* is empty, and drops it if it is not
DaemonSignal ==
    /\ nPc \in DaemonAlive
    /\ nStop = << >>
    /\ \E sig \in Signals : nStop' = << sig >>
    /\ UNCHANGED << avars, dvars, svars, pvars, rvars, cvars, tvars, mvars, uvars,
                    kvars, hvars, fvars, yvars, evars, bvars, gvars, nPc, nTick,
                    nScans, nRunning, nClosed >>

\* performScan has scanned the local network and goes on to the file targets
DaemonScanLocal ==
    /\ nPc = "local"
    /\ nPc' = "file"
    /\ UNCHANGED << avars, dvars, svars, pvars, rvars, cvars, tvars, mvars, uvars,
                    kvars, hvars, fvars, yvars, evars, bvars, gvars, nTick, nStop,
                    nScans, nRunning, nClosed >>

\* performScan has scanned the file targets and goes on to the result
DaemonScanFile ==
    /\ nPc = "file"
    /\ nPc' = "save"
    /\ UNCHANGED << avars, dvars, svars, pvars, rvars, cvars, tvars, mvars, uvars,
                    kvars, hvars, fvars, yvars, evars, bvars, gvars, nTick, nStop,
                    nScans, nRunning, nClosed >>

\* performScan saves the result and returns: main is at the select
DaemonScanReturns ==
    /\ nPc = "save"
    /\ nRunning' = nRunning - 1
    /\ nPc' = "select"
    /\ UNCHANGED << avars, dvars, svars, pvars, rvars, cvars, tvars, mvars, uvars,
                    kvars, hvars, fvars, yvars, evars, bvars, gvars, nTick, nStop,
                    nScans, nClosed >>

\* `case <-ticker.C`: the select takes the tick, also when stop is ready too,
\* and performScan is called
DaemonSelectTick ==
    /\ nPc = "select"
    /\ nTick = 1
    /\ nScans < MaxScans
    /\ nTick' = 0
    /\ nScans' = nScans + 1
    /\ nRunning' = nRunning + 1
    /\ nPc' = "local"
    /\ UNCHANGED << avars, dvars, svars, pvars, rvars, cvars, tvars, mvars, uvars,
                    kvars, hvars, fvars, yvars, evars, bvars, gvars, nStop, nClosed
                    >>

\* `case <-stop`: main returns, and the deferred ticker.Stop() and
\* discovery.Close() run
DaemonSelectStop ==
    /\ nPc = "select"
    /\ nStop # << >>
    /\ nStop' = << >>
    /\ nClosed' = TRUE
    /\ nPc' = "exited"
    /\ UNCHANGED << avars, dvars, svars, pvars, rvars, cvars, tvars, mvars, uvars,
                    kvars, hvars, fvars, yvars, evars, bvars, gvars, nTick, nScans,
                    nRunning >>

NextDaemon ==
    \/ DaemonTick
    \/ DaemonSignal
    \/ DaemonScanLocal
    \/ DaemonScanFile
    \/ DaemonScanReturns
    \/ DaemonSelectTick
    \/ DaemonSelectStop

SpecDaemon == InitDaemon /\ [][NextDaemon]_vars

\* C39: once a termination signal has been delivered no new performScan is
\* started; two calls of performScan never run at the same time; and when
\* main has returned the discovery is closed.
C39_NoScanAfterSignal ==
    /\ [][nStop # << >> => nScans' = nScans]_vars
    /\ [](nRunning <= 1)
    /\ [](nPc = "exited" => nClosed)

(***************************************************************************)
(* DiscoverHosts without port scanning                                     *)
(***************************************************************************)
\* the fields of a record that phase 1 decides
DiscoveryFields(r) ==
    [ IP |-> r.IP, FoundByARP |-> r.FoundByARP, FoundByICMP |-> r.FoundByICMP,
      FoundByTCP |-> r.FoundByTCP, MAC |-> r.MAC, Vendor |-> r.Vendor,
      ResponseTime |-> r.ResponseTime ]

\* C40: when enablePortScan is false performPortScanning never runs, so no
\* address is looked up or port scanned and every record has an empty
\* OpenPorts and an empty Hostname; and whatever enablePortScan is, the
\* discovery flags, MAC, Vendor and ResponseTime of the records after the
\* filter are those of the active records of resultsMap.
C40_DisabledPortScanLeavesRecords ==
    /\ ~enablePortScan =>
           /\ pc # "portscan"
           /\ scannedPorts = {}
           /\ \A i \in DOMAIN activeResults :
                  /\ activeResults[i].OpenPorts = << >>
                  /\ activeResults[i].Hostname = ""
    /\ pc \in {"portscan", "sort", "done"} /\ resultsMap # << >> =>
           LET active == {k \in DOMAIN resultsMap : IsActive(cells[resultsMap[k]])}
           IN  /\ Len(activeResults) = Cardinality(active)
               /\ {DiscoveryFields(activeResults[i]) : i \in DOMAIN activeResults} =
                      {DiscoveryFields(cells[resultsMap[k]]) : k \in active}

\* DiscoverHosts has returned, without port scanning, the record of a host
\* that accepts TCP connections
C40_Witness ==
    /\ pc = "done"
    /\ ~enablePortScan
    /\ Len(activeResults) > 0
    /\ activeResults[1].FoundByTCP
    /\ activeResults[1].IP \in tcpAccept
    /\ scannedPorts = {}

====
